---- MODULE Spec2Model ----
(***************************************************************************)
(* State machine of the EcommerceDashboard React component and of the     *)
(* APIClient it calls (App_NoTailwind.jsx).  The state is the component's *)
(* useState cells plus the HTTP exchanges that are in flight.  Each       *)
(* action is one event handler, one effect, or the continuation of one    *)
(* await.  React flushes the state updates of a handler before the next   *)
(* event is dispatched, so a handler (up to its first await) and each     *)
(* continuation is one atomic step.                                       *)
(***************************************************************************)
EXTENDS Integers, Sequences, FiniteSets, TLC

VARIABLES
    currentPage,            \* useState('home')
    loading,                \* useState(true)
    error,                  \* useState(null)
    aggregatedData,         \* useState(null)
    totalTransactionsMax,   \* useState(50)
    discountMax,            \* useState(1.0), in hundredths
    dashFetches,            \* fetchDashboardData calls in flight
    dashIssued,             \* fetchDashboardData calls made so far
    dashPending,            \* the calls in flight, numbered in the order made
    heldIssue,              \* the call whose result was stored last, 0 for none
    lastFetch,              \* the argument of the latest fetchDashboardData call
    selectedRegions,        \* useState([])
    selectedCategories,     \* useState([])
    selectedTenure,         \* useState([])
    selectedRecency,        \* useState([])
    totalTransactionsMin,   \* useState(0)
    discountMin,            \* useState(0), in hundredths
    timeFilter,             \* useState('all')
    sidebarOpen,            \* useState(true)
    chatMessages,           \* useState([])
    chatInput,              \* useState('')
    chatLoading,            \* useState(false)
    chatHistoryLoaded,      \* useState(false)
    graphChatMessages,      \* useState([])
    graphChatInput,         \* useState('')
    graphChatLoading,       \* useState(false)
    graphChatHistoryLoaded, \* useState(false)
    chatReqs,               \* POST /text/analyze exchanges in flight
    graphReqs,              \* POST /graphs/generate exchanges in flight
    chatHistReqs,           \* GET /chat/history exchanges in flight
    graphHistReqs,          \* GET /graphs/history exchanges in flight
    chatSends,              \* accepted handleSendMessage calls so far
    graphSends,             \* accepted handleSendGraphMessage calls so far
    chatHistIssued,         \* GET /chat/history requests issued so far
    graphHistIssued,        \* GET /graphs/history requests issued so far
    lastEvent,              \* the handler the last step ran and the response it consumed
    probe                   \* the latest call of a function taken alone: name, argument, result

filterVars == <<selectedRegions, selectedCategories, selectedTenure,
                selectedRecency, totalTransactionsMin, totalTransactionsMax,
                discountMin, discountMax, timeFilter>>
fetchVars == <<dashFetches, dashIssued, dashPending, heldIssue, lastFetch>>
dashVars  == <<loading, error, aggregatedData, filterVars, fetchVars,
               sidebarOpen, probe>>
chatVars  == <<chatMessages, chatInput, chatLoading, chatHistoryLoaded,
               chatReqs, chatHistReqs, chatSends, chatHistIssued>>
graphVars == <<graphChatMessages, graphChatInput, graphChatLoading,
               graphChatHistoryLoaded, graphReqs, graphHistReqs, graphSends,
               graphHistIssued>>
vars == <<currentPage, dashVars, chatVars, graphVars, lastEvent>>

----------------------------------------------------------------------------
(* Bounds of the model *)

\* requests issued in a run after the first load: the accepted sends of both
\* threads and the dashboard fetches that a change of filter triggers
MaxSends == 2
\* history requests issued in a run, both threads together
MaxHistFetches == 2

----------------------------------------------------------------------------
(* JavaScript values *)

\* null / undefined / a field that is absent from a JSON body
Null == "<null>"
Undefined == "<undefined>"

\* a value that is falsy where the code writes `v || fallback`
Falsy(v) == v \in {Null, Undefined, ""}

\* v || fallback
OrElse(v, fallback) == IF Falsy(v) THEN fallback ELSE v

Pages == {"home", "dashboard", "text", "graphs"}

\* new Date().toISOString(): the client clock, read by the handlers
ClientTimes == {"2026-01-02T10:00:00.000Z"}

\* text as a sequence of characters; Str is the string it denotes
Whitespace == {" "}
InputValues == {<<>>, <<" ">>, <<" ", "q", " ">>}

RECURSIVE Str(_)
Str(s) == IF s = <<>> THEN "" ELSE Head(s) \o Str(Tail(s))

RECURSIVE TrimStart(_)
TrimStart(s) ==
    IF s # <<>> /\ Head(s) \in Whitespace THEN TrimStart(Tail(s)) ELSE s

RECURSIVE TrimEnd(_)
TrimEnd(s) ==
    IF s # <<>> /\ s[Len(s)] \in Whitespace
    THEN TrimEnd(SubSeq(s, 1, Len(s) - 1))
    ELSE s

\* String.prototype.trim
trim(s) == TrimEnd(TrimStart(s))

----------------------------------------------------------------------------
(* HTTP exchanges.  A response is what fetch() settles with: a rejection  *)
(* (net = FALSE, the TypeError's message) or a status line with a body;   *)
(* the body parses as JSON or response.json() rejects with `message`.     *)
(* A JSON property that is absent reads as Undefined.                     *)

NetworkError(msg) ==
    [net |-> FALSE, status |-> 0, json |-> FALSE, message |-> msg,
     success |-> FALSE, error |-> Undefined, summary |-> Undefined,
     timestamp |-> Undefined, hasCharts |-> FALSE, charts |-> <<>>,
     hasHistory |-> FALSE, history |-> <<>>, questions |-> Undefined]

NotJson(status) ==
    [NetworkError("Unexpected token < in JSON at position 0")
        EXCEPT !.net = TRUE, !.status = status]

Json(status, success) ==
    [NetworkError("") EXCEPT !.net = TRUE, !.status = status, !.json = TRUE,
                             !.success = success]

ServerTime == "2026-01-02T09:59:58.000Z"
SomeChart == [title |-> "Revenue", chart_type |-> "bar"]

\* POST /text/analyze
AnalyzeResponses ==
    { NetworkError("Failed to fetch"),
      NotJson(500),
      [Json(500, FALSE) EXCEPT !.error = "database is down"],
      [Json(500, TRUE) EXCEPT !.summary = "Revenue is up."],
      NotJson(200),
      [Json(200, TRUE) EXCEPT !.summary = "Revenue is up.",
                              !.timestamp = ServerTime],
      [Json(200, TRUE) EXCEPT !.summary = "Revenue is up."],
      [Json(200, FALSE) EXCEPT !.error = "LLM timeout"],
      [Json(200, FALSE) EXCEPT !.error = ""],
      Json(200, FALSE) }

\* POST /graphs/generate
GraphResponses ==
    { NetworkError("Failed to fetch"),
      NotJson(500),
      [Json(500, FALSE) EXCEPT !.error = "database is down"],
      [Json(500, TRUE) EXCEPT !.hasCharts = TRUE, !.charts = <<SomeChart>>],
      NotJson(200),
      [Json(200, TRUE) EXCEPT !.hasCharts = TRUE, !.charts = <<SomeChart>>,
                              !.summary = "Revenue by month.",
                              !.timestamp = ServerTime],
      Json(200, TRUE),
      [Json(200, FALSE) EXCEPT !.error = "LLM timeout"],
      [Json(200, FALSE) EXCEPT !.error = ""],
      Json(200, FALSE) }

Row1 == [user_message |-> "old question 1", assistant_response |-> "old answer 1",
         created_at |-> "2025-12-30T08:00:00"]
Row2 == [user_message |-> "old question 2", assistant_response |-> "old answer 2",
         created_at |-> "2025-12-31T08:00:00"]

\* the three outcomes of a send: fetch rejects, a success payload, a
\* failure payload (the statuses are told apart in SpecChat and SpecGraph)
CoreAnalyzeResponses ==
    { NetworkError("Failed to fetch"),
      [Json(200, TRUE) EXCEPT !.summary = "Revenue is up.",
                              !.timestamp = ServerTime],
      [Json(200, FALSE) EXCEPT !.error = "LLM timeout"] }

CoreGraphResponses ==
    { NetworkError("Failed to fetch"),
      [Json(200, TRUE) EXCEPT !.hasCharts = TRUE, !.charts = <<SomeChart>>,
                              !.timestamp = ServerTime],
      [Json(200, FALSE) EXCEPT !.error = "LLM timeout"] }

\* GET /chat/history and GET /graphs/history (the chart thread reads only
\* user_message and created_at of a row)
CoreHistoryResponses ==
    { NetworkError("Failed to fetch"),
      [Json(500, TRUE) EXCEPT !.hasHistory = TRUE, !.history = <<Row1>>],
      NotJson(200),
      Json(200, FALSE),
      [Json(200, TRUE) EXCEPT !.hasHistory = TRUE, !.history = <<Row1>>] }

HistoryResponses ==
    { NetworkError("Failed to fetch"),
      NotJson(500),
      Json(500, FALSE),
      [Json(500, TRUE) EXCEPT !.hasHistory = TRUE, !.history = <<Row1>>],
      NotJson(200),
      Json(200, FALSE),
      Json(200, TRUE),
      [Json(200, TRUE) EXCEPT !.hasHistory = TRUE],
      [Json(200, TRUE) EXCEPT !.hasHistory = TRUE, !.history = <<Row1>>],
      [Json(200, TRUE) EXCEPT !.hasHistory = TRUE, !.history = <<Row1, Row2>>] }

\* the event record of a step that consumes no response
NoResponse == NetworkError("")

Event(op) == [op |-> op, resp |-> NoResponse]

\* the last step ran continuation `op` on response `resp`
Observed(op, resp) == lastEvent' = [op |-> op, resp |-> resp]

\* the last step ran a continuation whose response is not recorded
Unobserved == lastEvent' = Event("other")

\* response.ok
ok(resp) == resp.status >= 200 /\ resp.status <= 299

----------------------------------------------------------------------------
(* APIClient *)

ApiFailure(reason) ==
    [success |-> FALSE, error |-> reason, summary |-> Undefined,
     timestamp |-> Undefined]

\* analyzeText without the test of response.ok
analyzeTextNoStatusTest(resp) ==
    IF ~resp.net THEN ApiFailure(OrElse(resp.message, "Failed to connect to API"))
    ELSE IF ~resp.json THEN ApiFailure(OrElse(resp.message, "Failed to connect to API"))
    ELSE IF resp.success
         THEN [success |-> TRUE, error |-> Undefined, summary |-> resp.summary,
               timestamp |-> resp.timestamp]
         ELSE ApiFailure(OrElse(resp.error, "Unknown error occurred"))

\* static async analyzeText(userMessage), as a function of what fetch settles with
analyzeText(resp) ==
    IF ~resp.net THEN ApiFailure(OrElse(resp.message, "Failed to connect to API"))
    ELSE IF ~ok(resp) THEN ApiFailure("API error: " \o ToString(resp.status))
    ELSE IF ~resp.json THEN ApiFailure(OrElse(resp.message, "Failed to connect to API"))
    ELSE IF resp.success
         THEN [success |-> TRUE, error |-> Undefined, summary |-> resp.summary,
               timestamp |-> resp.timestamp]
         ELSE ApiFailure(OrElse(resp.error, "Unknown error occurred"))

\* generateGraphs without the test of response.ok
generateGraphsNoStatusTest(resp) ==
    IF ~resp.net \/ ~resp.json
    THEN [success |-> FALSE,
          error |-> OrElse(resp.message, "Failed to connect to API")]
    ELSE IF resp.success
    THEN [success |-> TRUE,
          charts |-> IF resp.hasCharts THEN resp.charts ELSE <<>>,
          questions |-> OrElse(resp.questions, ""),
          timestamp |-> resp.timestamp]
    ELSE [success |-> FALSE, error |-> OrElse(resp.error, "Unknown error occurred")]

\* static async generateGraphs(userMessage), as a function of what fetch
\* settles with
generateGraphs(resp) ==
    IF ~resp.net
    THEN [success |-> FALSE,
          error |-> OrElse(resp.message, "Failed to connect to API")]
    ELSE IF ~ok(resp)
    THEN [success |-> FALSE, error |-> "API error: " \o ToString(resp.status)]
    ELSE IF ~resp.json
    THEN [success |-> FALSE,
          error |-> OrElse(resp.message, "Failed to connect to API")]
    ELSE IF resp.success
    THEN [success |-> TRUE,
          charts |-> IF resp.hasCharts THEN resp.charts ELSE <<>>,
          questions |-> OrElse(resp.questions, ""),
          timestamp |-> resp.timestamp]
    ELSE [success |-> FALSE, error |-> OrElse(resp.error, "Unknown error occurred")]

\* static async fetchChatHistory()
fetchChatHistory(resp) ==
    IF ~resp.net THEN <<>>
    ELSE IF ~ok(resp) THEN <<>>
    ELSE IF ~resp.json THEN <<>>
    ELSE IF resp.success
         THEN (IF resp.hasHistory THEN resp.history ELSE <<>>)
         ELSE <<>>

----------------------------------------------------------------------------
(* Dashboard aggregate *)

\* names of regions, categories and buckets, as sequences of characters
West == <<"W", "e", "s", "t">>
NewYork == <<"N", "e", "w", " ", "Y", "o", "r", "k">>
Toys == <<"T", "o", "y", "s">>
HomeAndGarden == <<"H", "o", "m", "e", "&", "G", "a", "r", "d", "e", "n">>
OneYearPlus == <<"1", "y", "+">>
Recent == <<"0", "-", "3", "0", "d">>

\* what fetchDashboardData resolves to: null, or the aggregate object
\* (rawData[0]); of the aggregate the component reads filterLists here.
\* `lists` tells whether filterLists holds the candidate lists.
NoData == [present |-> FALSE, id |-> 0, hasFilterLists |-> FALSE,
           transactionsMax |-> 0, discountMax |-> 0, lists |-> FALSE,
           regions |-> <<>>, categories |-> <<>>, tenureList |-> <<>>,
           recencyList |-> <<>>]
Aggregate(tMax, dMax) ==
    [present |-> TRUE, id |-> 0, hasFilterLists |-> TRUE,
     transactionsMax |-> tMax, discountMax |-> dMax, lists |-> TRUE,
     regions |-> <<West, NewYork>>, categories |-> <<Toys, HomeAndGarden>>,
     tenureList |-> <<OneYearPlus>>, recencyList |-> <<Recent>>]
DashboardResults ==
    { NoData,
      [Aggregate(0, 0) EXCEPT !.hasFilterLists = FALSE, !.lists = FALSE],
      Aggregate(50, 100),
      Aggregate(30, 100),
      Aggregate(50, 0) }

\* the results the conversation specifications draw from: the first load
\* fails, or succeeds with the ceilings the component starts with
FirstLoadResults == { NoData, Aggregate(50, 100) }

----------------------------------------------------------------------------
(* APIClient.fetchDashboardData *)

\* Array.prototype.join(','), on sequences of characters
RECURSIVE join(_)
join(items) ==
    IF items = <<>> THEN <<>>
    ELSE IF Len(items) = 1 THEN Head(items)
    ELSE Head(items) \o <<",">> \o join(Tail(items))

\* String(n) for an integer n >= 0
Digit(d) == <<"0", "1", "2", "3", "4", "5", "6", "7", "8", "9">>[d + 1]
RECURSIVE NumStr(_)
NumStr(n) == IF n < 10 THEN Digit(n) ELSE NumStr(n \div 10) \o Digit(n % 10)

\* String(x) for x = h / 100, h >= 0: no trailing zeros, no trailing point
DecimalStr(h) ==
    IF h % 100 = 0 THEN NumStr(h \div 100)
    ELSE IF h % 10 = 0
         THEN NumStr(h \div 100) \o "." \o Digit((h % 100) \div 10)
         ELSE NumStr(h \div 100) \o "." \o Digit((h % 100) \div 10)
                                 \o Digit(h % 10)

\* the application/x-www-form-urlencoded serializer of URLSearchParams, on
\* the characters that occur in the names: letters, digits, "-", "." and
\* "*" stay, a space becomes "+", any other character its percent code
PercentCode(c) ==
    CASE c = " " -> "+"
      [] c = "," -> "%2C"
      [] c = "&" -> "%26"
      [] c = "+" -> "%2B"
      [] OTHER -> c
RECURSIVE urlencode(_)
urlencode(chars) ==
    IF chars = <<>> THEN ""
    ELSE PercentCode(Head(chars)) \o urlencode(Tail(chars))

\* params.append(name, value): the parameter as appended and as serialized
Param(name, value, encoded) ==
    [name |-> name, value |-> value, encoded |-> name \o "=" \o encoded]
ListParam(name, items) ==
    IF Len(items) > 0
    THEN <<Param(name, Str(join(items)), urlencode(join(items)))>>
    ELSE <<>>
\* IntParam with `>= 0` in place of `> 0`
IntParamNonNegative(name, n) ==
    IF n >= 0 THEN <<Param(name, NumStr(n), NumStr(n))>> ELSE <<>>

IntParam(name, n) ==
    IF n > 0 THEN <<Param(name, NumStr(n), NumStr(n))>> ELSE <<>>
DecimalParam(name, h) ==
    IF h > 0 THEN <<Param(name, DecimalStr(h), DecimalStr(h))>> ELSE <<>>

\* params.toString()
RECURSIVE paramsToString(_)
paramsToString(params) ==
    IF params = <<>> THEN ""
    ELSE IF Len(params) = 1 THEN Head(params).encoded
    ELSE Head(params).encoded \o "&" \o paramsToString(Tail(params))

\* the URLSearchParams fetchDashboardData builds from its argument
dashboardParams(filters) ==
    ListParam("regions", filters.regions)
    \o ListParam("categories", filters.categories)
    \o ListParam("customerTenure", filters.customerTenure)
    \o ListParam("customerRecency", filters.customerRecency)
    \o IntParam("totalTransactionsMin", filters.totalTransactionsMin)
    \o IntParam("totalTransactionsMax", filters.totalTransactionsMax)
    \o DecimalParam("discountMin", filters.discountMin)
    \o DecimalParam("discountMax", filters.discountMax)
    \o (IF filters.timeFilter # "all"
        THEN <<Param("timeFilter", filters.timeFilter, filters.timeFilter)>>
        ELSE <<>>)

\* the url fetchDashboardData fetches, after API_BASE_URL
dashboardUrl(filters) ==
    "/data" \o (IF paramsToString(dashboardParams(filters)) # ""
                THEN "?" \o paramsToString(dashboardParams(filters))
                ELSE "")

\* what fetch(url) settles with: a rejection, or a status line with a body
\* that is not JSON, is a JSON value that is no array (array = FALSE), or
\* is a JSON array of aggregates
DataResponse(net, status, json, array, rows) ==
    [net |-> net, status |-> status, json |-> json, array |-> array,
     rows |-> rows]
DataResponses ==
    { DataResponse(FALSE, 0, FALSE, FALSE, <<>>) }
    \cup { DataResponse(TRUE, status, FALSE, FALSE, <<>>) :
              status \in {200, 500} }
    \cup { DataResponse(TRUE, status, TRUE, FALSE, <<>>) :
              status \in {200, 500} }
    \cup { DataResponse(TRUE, status, TRUE, TRUE, rows) :
              status \in {200, 204, 404, 500},
              rows \in { <<>>, <<Aggregate(50, 100)>>,
                         <<Aggregate(30, 100), Aggregate(50, 100)>> } }

\* fetchDashboardData without the test of response.ok
fetchDashboardDataNoStatusTest(resp) ==
    IF ~resp.net THEN NoData
    ELSE IF ~resp.json THEN NoData
    ELSE IF ~resp.array \/ Len(resp.rows) = 0 THEN NoData
    ELSE resp.rows[1]

\* static async fetchDashboardData(filters), from the response on: what the
\* promise resolves to (NoData stands for null)
fetchDashboardData(resp) ==
    IF ~resp.net THEN NoData
    ELSE IF ~ok(resp) THEN NoData
    ELSE IF ~resp.json THEN NoData
    ELSE IF ~resp.array \/ Len(resp.rows) = 0 THEN NoData
    ELSE resp.rows[1]

\* an array value held in a state cell.  `ref` tells which object it is, as
\* far as the dependency comparison of an effect (Object.is) can tell: 0 for
\* an array made by the handler that stored it, n > 0 for the array inside
\* the filterLists of the n-th aggregate received
Fresh(items) == [items |-> items, ref |-> 0]
Held(items, id) == [items |-> items, ref |-> id]

\* the object the effect passes to APIClient.fetchDashboardData
FilterState ==
    [regions |-> selectedRegions.items,
     categories |-> selectedCategories.items,
     customerTenure |-> selectedTenure.items,
     customerRecency |-> selectedRecency.items,
     totalTransactionsMin |-> totalTransactionsMin,
     totalTransactionsMax |-> totalTransactionsMax,
     discountMin |-> discountMin,
     discountMax |-> discountMax,
     timeFilter |-> timeFilter]

\* the state of the cells at the first render
DefaultFilterState ==
    [regions |-> <<>>, categories |-> <<>>, customerTenure |-> <<>>,
     customerRecency |-> <<>>, totalTransactionsMin |-> 0,
     totalTransactionsMax |-> 50, discountMin |-> 0, discountMax |-> 100,
     timeFilter |-> "all"]

\* no function has been called alone
NoProbe == [fn |-> "none"]

\* the test if the component had no early return on error
RenderedDespiteError == ~loading

\* neither of the component's early returns is taken: a page is on screen
Rendered == ~loading /\ error = Null

\* requests issued after the first load
Requests == chatSends + graphSends + (dashIssued - 1)

Init ==
    /\ currentPage = "home"
    /\ loading = TRUE
    /\ error = Null
    /\ aggregatedData = NoData
    /\ selectedRegions = Fresh(<<>>)
    /\ selectedCategories = Fresh(<<>>)
    /\ selectedTenure = Fresh(<<>>)
    /\ selectedRecency = Fresh(<<>>)
    /\ totalTransactionsMin = 0
    /\ totalTransactionsMax = 50
    /\ discountMin = 0
    /\ discountMax = 100
    /\ timeFilter = "all"
    /\ sidebarOpen = TRUE
    /\ dashFetches = 1
    /\ dashIssued = 1
    /\ dashPending = {1}
    /\ heldIssue = 0
    /\ lastFetch = DefaultFilterState
    /\ chatMessages = <<>>
    /\ chatInput = <<>>
    /\ chatLoading = FALSE
    /\ chatHistoryLoaded = FALSE
    /\ graphChatMessages = <<>>
    /\ graphChatInput = <<>>
    /\ graphChatLoading = FALSE
    /\ graphChatHistoryLoaded = FALSE
    /\ chatReqs = {}
    /\ graphReqs = {}
    /\ chatHistReqs = {}
    /\ graphHistReqs = {}
    /\ chatSends = 0
    /\ graphSends = 0
    /\ chatHistIssued = 0
    /\ graphHistIssued = 0
    /\ lastEvent = Event("mount")
    /\ probe = NoProbe

\* the effect if timeFilter were missing from its dependency array
dashboardEffectWithoutTimeFilter(changed, settled) ==
    LET fires == changed /\ timeFilter' = timeFilter
    IN  /\ fires => Requests < MaxSends
        /\ dashFetches' = dashFetches - (IF settled = 0 THEN 0 ELSE 1)
                                      + (IF fires THEN 1 ELSE 0)
        /\ dashIssued' = dashIssued + (IF fires THEN 1 ELSE 0)
        /\ dashPending' = (dashPending \ {settled})
                              \cup (IF fires THEN {dashIssued + 1} ELSE {})
        /\ heldIssue' = IF settled = 0 THEN heldIssue ELSE settled
        /\ lastFetch' = IF fires THEN FilterState' ELSE lastFetch

\* the effect on the nine filter cells, run after a step in which the call
\* `settled` resolved (0 when none did): when a dependency changed,
\* fetchData() calls APIClient.fetchDashboardData with the cells of the new
\* render; nothing cancels or skips the calls still in flight
dashboardEffect(changed, settled) ==
    /\ changed => Requests < MaxSends
    /\ dashFetches' = dashFetches - (IF settled = 0 THEN 0 ELSE 1)
                                  + (IF changed THEN 1 ELSE 0)
    /\ dashIssued' = dashIssued + (IF changed THEN 1 ELSE 0)
    /\ dashPending' = (dashPending \ {settled})
                          \cup (IF changed THEN {dashIssued + 1} ELSE {})
    /\ heldIssue' = IF settled = 0 THEN heldIssue ELSE settled
    /\ lastFetch' = IF changed THEN FilterState' ELSE lastFetch

\* the continuation if it stored the data without adopting the ceilings
dashboardFetchResolveKeepsCeilings(data) ==
    \E call \in dashPending :
       /\ IF ~data.present
          THEN /\ error' = "No data returned from API"
               /\ aggregatedData' = NoData
          ELSE /\ aggregatedData' = [data EXCEPT !.id = call]
               /\ error' = Null
       /\ loading' = FALSE
       /\ UNCHANGED filterVars
       /\ dashboardEffect(FALSE, call)
       /\ lastEvent' = Event("other")
       /\ UNCHANGED <<currentPage, chatVars, graphVars, sidebarOpen, probe>>

\* the continuation if every stored response re-ran the effect, as it would
\* with aggregatedData among the dependencies
dashboardFetchResolveAlwaysRefetching(data) ==
    \E call \in dashPending :
       /\ IF ~data.present
          THEN /\ error' = "No data returned from API"
               /\ aggregatedData' = NoData
               /\ UNCHANGED <<totalTransactionsMax, discountMax>>
          ELSE /\ aggregatedData' = [data EXCEPT !.id = call]
               /\ IF data.hasFilterLists
                  THEN /\ totalTransactionsMax' = data.transactionsMax
                       /\ discountMax' = data.discountMax
                  ELSE UNCHANGED <<totalTransactionsMax, discountMax>>
               /\ error' = Null
       /\ loading' = FALSE
       /\ UNCHANGED <<selectedRegions, selectedCategories, selectedTenure,
                      selectedRecency, totalTransactionsMin, discountMin,
                      timeFilter>>
       /\ dashboardEffect(TRUE, call)
       /\ lastEvent' = Event("other")
       /\ UNCHANGED <<currentPage, chatVars, graphVars, sidebarOpen, probe>>

\* continuation of `await APIClient.fetchDashboardData(...)` in the effect,
\* for whichever call in flight is answered; adopting a ceiling that differs
\* re-runs the effect, which fetches again
dashboardFetchResolve(data) ==
    \E call \in dashPending :
       /\ IF ~data.present
          THEN /\ error' = "No data returned from API"
               /\ aggregatedData' = NoData
               /\ UNCHANGED <<totalTransactionsMax, discountMax>>
          ELSE /\ aggregatedData' = [data EXCEPT !.id = call]
               /\ IF data.hasFilterLists
                  THEN /\ totalTransactionsMax' = data.transactionsMax
                       /\ discountMax' = data.discountMax
                  ELSE UNCHANGED <<totalTransactionsMax, discountMax>>
               /\ error' = Null
       /\ loading' = FALSE
       /\ UNCHANGED <<selectedRegions, selectedCategories, selectedTenure,
                      selectedRecency, totalTransactionsMin, discountMin,
                      timeFilter>>
       /\ dashboardEffect(<<totalTransactionsMax', discountMax'>>
                             # <<totalTransactionsMax, discountMax>>, call)
       /\ lastEvent' = Event("other")
       /\ UNCHANGED <<currentPage, chatVars, graphVars, sidebarOpen, probe>>

----------------------------------------------------------------------------
(* Dashboard filters *)

\* DashboardPage renders its content
DashboardShown == Rendered /\ currentPage = "dashboard" /\ aggregatedData.present

\* the sidebar with the selects, the sliders and the clear-all button
SidebarShown == DashboardShown /\ sidebarOpen

FilterTypes == {"regions", "categories", "tenure", "recency"}

\* the cell of a filter type
Selected(filterType) ==
    CASE filterType = "regions" -> selectedRegions
      [] filterType = "categories" -> selectedCategories
      [] filterType = "tenure" -> selectedTenure
      [] filterType = "recency" -> selectedRecency

\* filterLists.regions, .categories, .tenureList, .recencyList of an aggregate
ListOf(data, filterType) ==
    CASE filterType = "regions" -> data.regions
      [] filterType = "categories" -> data.categories
      [] filterType = "tenure" -> data.tenureList
      [] filterType = "recency" -> data.recencyList

\* the setter of one filter type is called with `value`
setSelected(filterType, value) ==
    /\ selectedRegions' =
          IF filterType = "regions" THEN value ELSE selectedRegions
    /\ selectedCategories' =
          IF filterType = "categories" THEN value ELSE selectedCategories
    /\ selectedTenure' =
          IF filterType = "tenure" THEN value ELSE selectedTenure
    /\ selectedRecency' =
          IF filterType = "recency" THEN value ELSE selectedRecency

\* the options of a select: aggregatedData.filterLists?.regions || []
Options(filterType) ==
    IF aggregatedData.hasFilterLists /\ aggregatedData.lists
    THEN ListOf(aggregatedData, filterType)
    ELSE <<>>

\* the elements of `list` at the places in `picked`, in the order of the list
RECURSIVE Pick(_, _, _)
Pick(list, picked, i) ==
    IF i > Len(list) THEN <<>>
    ELSE (IF i \in picked THEN <<list[i]>> ELSE <<>>) \o Pick(list, picked, i + 1)

\* Array.from(e.target.selectedOptions, opt => opt.value)
Selections(filterType) ==
    { Pick(Options(filterType), picked, 1) :
         picked \in SUBSET (1..Len(Options(filterType))) }

TimeFilters == {"1m", "3m", "6m", "1y", "all"}

\* the positions of the sliders the model moves them to
TransactionValues == {0, 5, 50}
DiscountValues == {0, 25, 100}

\* max of the range inputs: filterLists?.transactionsMax || 50, and
\* filterLists?.discountMax || 1.0
CeilingOr(ceiling, fallback) ==
    IF aggregatedData.hasFilterLists /\ ceiling # 0 THEN ceiling ELSE fallback

\* what a handler of the filters leaves alone
filterFrame == <<currentPage, loading, error, aggregatedData, sidebarOpen,
                 probe, chatVars, graphVars>>

\* onChange of a multiple select: setSelectedRegions(Array.from(...)), ...
selectOptions(filterType, items) ==
    /\ SidebarShown
    /\ items \in Selections(filterType)
    /\ items # Selected(filterType).items
    /\ setSelected(filterType, Fresh(items))
    /\ UNCHANGED <<totalTransactionsMin, totalTransactionsMax, discountMin,
                   discountMax, timeFilter>>
    /\ dashboardEffect(TRUE, 0)
    /\ lastEvent' = Event("other")
    /\ UNCHANGED filterFrame

\* handleSelectAll without the test of aggregatedData?.filterLists, reading
\* the list as the selects do: aggregatedData.filterLists?.regions || []
handleSelectAllWithoutMetadataTest(filterType) ==
    /\ SidebarShown
    /\ LET value == IF aggregatedData.hasFilterLists /\ aggregatedData.lists
                    THEN Held(ListOf(aggregatedData, filterType),
                              aggregatedData.id)
                    ELSE Fresh(<<>>)
       IN  /\ setSelected(filterType, value)
           /\ UNCHANGED <<totalTransactionsMin, totalTransactionsMax,
                          discountMin, discountMax, timeFilter>>
           /\ dashboardEffect(value.ref = 0
                                \/ value.ref # Selected(filterType).ref, 0)
    /\ lastEvent' = Event("other")
    /\ UNCHANGED filterFrame

handleSelectAll(filterType) ==
    /\ SidebarShown
    /\ IF ~aggregatedData.hasFilterLists
       THEN /\ UNCHANGED filterVars
            /\ dashboardEffect(FALSE, 0)
       ELSE LET value == IF aggregatedData.lists
                         THEN Held(ListOf(aggregatedData, filterType),
                                   aggregatedData.id)
                         ELSE Fresh(<<>>)
            IN  /\ setSelected(filterType, value)
                /\ UNCHANGED <<totalTransactionsMin, totalTransactionsMax,
                               discountMin, discountMax, timeFilter>>
                /\ dashboardEffect(value.ref = 0
                                     \/ value.ref # Selected(filterType).ref, 0)
    /\ lastEvent' = Event("other")
    /\ UNCHANGED filterFrame

handleClearFilter(filterType) ==
    /\ SidebarShown
    /\ setSelected(filterType, Fresh(<<>>))
    /\ UNCHANGED <<totalTransactionsMin, totalTransactionsMax, discountMin,
                   discountMax, timeFilter>>
    /\ dashboardEffect(TRUE, 0)
    /\ lastEvent' = Event("other")
    /\ UNCHANGED filterFrame

\* clearAllFilters if it emptied the question typed in the analysis thread too
clearAllFiltersAndInput ==
    /\ SidebarShown
    /\ selectedRegions' = Fresh(<<>>)
    /\ selectedCategories' = Fresh(<<>>)
    /\ selectedTenure' = Fresh(<<>>)
    /\ selectedRecency' = Fresh(<<>>)
    /\ totalTransactionsMin' = 0
    /\ totalTransactionsMax' = CeilingOr(aggregatedData.transactionsMax, 50)
    /\ discountMin' = 0
    /\ discountMax' = CeilingOr(aggregatedData.discountMax, 100)
    /\ timeFilter' = "all"
    /\ dashboardEffect(TRUE, 0)
    /\ lastEvent' = Event("other")
    /\ chatInput' = <<>>
    /\ UNCHANGED <<currentPage, loading, error, aggregatedData, sidebarOpen,
                   probe, chatMessages, chatLoading, chatHistoryLoaded,
                   chatReqs, chatHistReqs, chatSends, chatHistIssued,
                   graphVars>>

clearAllFilters ==
    /\ SidebarShown
    /\ selectedRegions' = Fresh(<<>>)
    /\ selectedCategories' = Fresh(<<>>)
    /\ selectedTenure' = Fresh(<<>>)
    /\ selectedRecency' = Fresh(<<>>)
    /\ totalTransactionsMin' = 0
    /\ totalTransactionsMax' = CeilingOr(aggregatedData.transactionsMax, 50)
    /\ discountMin' = 0
    /\ discountMax' = CeilingOr(aggregatedData.discountMax, 100)
    /\ timeFilter' = "all"
    /\ dashboardEffect(TRUE, 0)
    /\ lastEvent' = Event("other")
    /\ UNCHANGED filterFrame

\* onChange of the four range inputs
setTotalTransactionsMin(value) ==
    /\ SidebarShown
    /\ value <= CeilingOr(aggregatedData.transactionsMax, 50)
    /\ value # totalTransactionsMin
    /\ totalTransactionsMin' = value
    /\ UNCHANGED <<selectedRegions, selectedCategories, selectedTenure,
                   selectedRecency, totalTransactionsMax, discountMin,
                   discountMax, timeFilter>>
    /\ dashboardEffect(TRUE, 0)
    /\ lastEvent' = Event("other")
    /\ UNCHANGED filterFrame

setTotalTransactionsMax(value) ==
    /\ SidebarShown
    /\ value <= CeilingOr(aggregatedData.transactionsMax, 50)
    /\ value # totalTransactionsMax
    /\ totalTransactionsMax' = value
    /\ UNCHANGED <<selectedRegions, selectedCategories, selectedTenure,
                   selectedRecency, totalTransactionsMin, discountMin,
                   discountMax, timeFilter>>
    /\ dashboardEffect(TRUE, 0)
    /\ lastEvent' = Event("other")
    /\ UNCHANGED filterFrame

setDiscountMin(value) ==
    /\ SidebarShown
    /\ value <= CeilingOr(aggregatedData.discountMax, 100)
    /\ value # discountMin
    /\ discountMin' = value
    /\ UNCHANGED <<selectedRegions, selectedCategories, selectedTenure,
                   selectedRecency, totalTransactionsMin,
                   totalTransactionsMax, discountMax, timeFilter>>
    /\ dashboardEffect(TRUE, 0)
    /\ lastEvent' = Event("other")
    /\ UNCHANGED filterFrame

setDiscountMax(value) ==
    /\ SidebarShown
    /\ value <= CeilingOr(aggregatedData.discountMax, 100)
    /\ value # discountMax
    /\ discountMax' = value
    /\ UNCHANGED <<selectedRegions, selectedCategories, selectedTenure,
                   selectedRecency, totalTransactionsMin,
                   totalTransactionsMax, discountMin, timeFilter>>
    /\ dashboardEffect(TRUE, 0)
    /\ lastEvent' = Event("other")
    /\ UNCHANGED filterFrame

\* onClick of a period button; the same period again changes no state
setTimeFilter(period) ==
    /\ DashboardShown
    /\ timeFilter' = period
    /\ UNCHANGED <<selectedRegions, selectedCategories, selectedTenure,
                   selectedRecency, totalTransactionsMin,
                   totalTransactionsMax, discountMin, discountMax>>
    /\ dashboardEffect(period # timeFilter, 0)
    /\ lastEvent' = Event("other")
    /\ UNCHANGED filterFrame

\* onClick of the sidebar button in the Navigation of the dashboard page:
\* setSidebarOpen(!sidebarOpen)
toggleSidebar ==
    /\ DashboardShown
    /\ sidebarOpen' = ~sidebarOpen
    /\ lastEvent' = Event("other")
    /\ UNCHANGED <<currentPage, loading, error, aggregatedData, filterVars,
                   fetchVars, probe, chatVars, graphVars>>

----------------------------------------------------------------------------
(* History hydration *)

\* body of the effect on [currentPage, chatHistoryLoaded]: the condition and
\* the call of APIClient.fetchChatHistory
chatHistoryEffect(page) ==
    IF page = "text" /\ ~chatHistoryLoaded
    THEN /\ chatHistIssued + graphHistIssued < MaxHistFetches
         /\ chatHistIssued' = chatHistIssued + 1
         /\ chatHistReqs' = chatHistReqs \cup {chatHistIssued + 1}
    ELSE UNCHANGED <<chatHistReqs, chatHistIssued>>

\* body of the effect on [currentPage, graphChatHistoryLoaded]: the condition
\* and the call of fetch(.../graphs/history?limit=20)
graphHistoryEffect(page) ==
    IF page = "graphs" /\ ~graphChatHistoryLoaded
    THEN /\ chatHistIssued + graphHistIssued < MaxHistFetches
         /\ graphHistIssued' = graphHistIssued + 1
         /\ graphHistReqs' = graphHistReqs \cup {graphHistIssued + 1}
    ELSE UNCHANGED <<graphHistReqs, graphHistIssued>>

\* onClick of a navigation button or of a home card: setCurrentPage(page),
\* then the effects that depend on currentPage
setCurrentPage(page) ==
    /\ Rendered
    /\ page # currentPage
    /\ currentPage' = page
    /\ chatHistoryEffect(page)
    /\ graphHistoryEffect(page)
    /\ lastEvent' = Event("other")
    /\ UNCHANGED <<dashVars, chatMessages, chatInput, chatLoading,
                   chatHistoryLoaded, chatReqs, chatSends, graphChatMessages,
                   graphChatInput, graphChatLoading, graphChatHistoryLoaded,
                   graphReqs, graphSends>>

RECURSIVE chatLoaded(_)
\* history.forEach(row => { loaded.push(user); loaded.push(assistant) })
chatLoaded(history) ==
    IF history = <<>> THEN <<>>
    ELSE << [role |-> "user", content |-> Head(history).user_message,
             timestamp |-> Head(history).created_at, sid |-> 0],
            [role |-> "assistant", content |-> Head(history).assistant_response,
             timestamp |-> Head(history).created_at, sid |-> 0] >>
         \o chatLoaded(Tail(history))

\* the .then callback of APIClient.fetchChatHistory()
chatHistoryResolve(id, resp) ==
    /\ id \in chatHistReqs
    /\ chatHistReqs' = chatHistReqs \ {id}
    /\ LET history == fetchChatHistory(resp) IN
          IF Len(history) > 0
          THEN chatMessages' = chatLoaded(history)
          ELSE UNCHANGED chatMessages
    /\ chatHistoryLoaded' = TRUE
    /\ UNCHANGED <<currentPage, dashVars, graphVars, chatInput, chatLoading,
                   chatReqs, chatSends, chatHistIssued>>

\* the placeholder text (the source puts a chart emoji before it)
GraphPlaceholder ==
    "Charts were generated for this question (re-ask to regenerate)."

RECURSIVE graphLoadedUsersOnly(_)
\* graphLoaded without the placeholder messages
graphLoadedUsersOnly(history) ==
    IF history = <<>> THEN <<>>
    ELSE << [role |-> "user", content |-> Head(history).user_message,
             timestamp |-> Head(history).created_at, sid |-> 0] >>
         \o graphLoadedUsersOnly(Tail(history))

RECURSIVE graphLoaded(_)
\* data.history.map(...) then loaded.forEach(m => { msgs.push(m); msgs.push(placeholder) })
graphLoaded(history) ==
    IF history = <<>> THEN <<>>
    ELSE << [role |-> "user", content |-> Head(history).user_message,
             timestamp |-> Head(history).created_at, sid |-> 0],
            [role |-> "assistant", content |-> GraphPlaceholder, charts |-> <<>>,
             timestamp |-> Head(history).created_at, sid |-> 0] >>
         \o graphLoaded(Tail(history))

\* fetch(.../graphs/history).then(r => r.json()).then(data => ...).catch(...)
graphHistoryResolve(id, resp) ==
    /\ id \in graphHistReqs
    /\ graphHistReqs' = graphHistReqs \ {id}
    /\ IF resp.net /\ resp.json /\ resp.success /\ resp.hasHistory
            /\ Len(resp.history) > 0
       THEN graphChatMessages' = graphLoaded(resp.history)
       ELSE UNCHANGED graphChatMessages
    /\ graphChatHistoryLoaded' = TRUE
    /\ UNCHANGED <<currentPage, dashVars, chatVars, graphChatInput,
                   graphChatLoading, graphReqs, graphSends, graphHistIssued>>

----------------------------------------------------------------------------
(* Analysis thread *)

\* onChange of the textarea (disabled while chatLoading): setChatInput(value)
setChatInput(value) ==
    /\ Rendered
    /\ currentPage = "text"
    /\ ~chatLoading
    /\ value # chatInput
    /\ chatInput' = value
    /\ lastEvent' = Event("other")
    /\ UNCHANGED <<currentPage, dashVars, graphVars, chatMessages, chatLoading,
                   chatHistoryLoaded, chatReqs, chatHistReqs, chatSends,
                   chatHistIssued>>

\* chatSendGuard without the test of the trimmed text
chatSendGuardNoBlankTest == ~chatLoading

\* the guard of handleSendMessage: the handler goes on only when this holds
chatSendGuard == trim(chatInput) # <<>> /\ ~chatLoading

\* handleSendMessage if it stored the input as typed in the user message
handleSendMessageUntrimmed ==
    /\ Rendered
    /\ currentPage = "text"
    /\ IF chatSendGuard
       THEN /\ Requests < MaxSends
            /\ lastEvent' = Event("handleSendMessage:await")
            /\ chatSends' = chatSends + 1
            /\ \E now \in ClientTimes :
                  chatMessages' = Append(chatMessages,
                      [role |-> "user", content |-> Str(chatInput),
                       timestamp |-> now, sid |-> chatSends + 1])
            /\ chatInput' = <<>>
            /\ chatLoading' = TRUE
            /\ chatReqs' = chatReqs \cup
                  {[sid |-> chatSends + 1, text |-> Str(trim(chatInput))]}
       ELSE /\ lastEvent' = Event("handleSendMessage:return")
            /\ UNCHANGED <<chatSends, chatMessages, chatInput, chatLoading,
                           chatReqs>>
    /\ UNCHANGED <<currentPage, dashVars, graphVars, chatHistoryLoaded,
                   chatHistReqs, chatHistIssued>>

\* handleSendMessage up to `await APIClient.analyzeText(text)`
handleSendMessage ==
    /\ Rendered
    /\ currentPage = "text"
    /\ IF chatSendGuard
       THEN /\ Requests < MaxSends
            /\ lastEvent' = Event("handleSendMessage:await")
            /\ chatSends' = chatSends + 1
            /\ \E now \in ClientTimes :
                  chatMessages' = Append(chatMessages,
                      [role |-> "user", content |-> Str(trim(chatInput)),
                       timestamp |-> now, sid |-> chatSends + 1])
            /\ chatInput' = <<>>
            /\ chatLoading' = TRUE
            /\ chatReqs' = chatReqs \cup
                  {[sid |-> chatSends + 1, text |-> Str(trim(chatInput))]}
       ELSE /\ lastEvent' = Event("handleSendMessage:return")
            /\ UNCHANGED <<chatSends, chatMessages, chatInput, chatLoading,
                           chatReqs>>
    /\ UNCHANGED <<currentPage, dashVars, graphVars, chatHistoryLoaded,
                   chatHistReqs, chatHistIssued>>

ErrorPrefix == "Sorry, I ran into an issue: "

\* the assistant message handleSendMessage builds from the result
chatReply(result, now, sid) ==
    IF result.success
    THEN [role |-> "assistant", content |-> result.summary,
          timestamp |-> OrElse(result.timestamp, now), sid |-> sid]
    ELSE [role |-> "assistant", content |-> ErrorPrefix \o result.error,
          timestamp |-> now, sid |-> sid]

\* handleSendMessage after the await
handleSendMessageResume(req, resp) ==
    /\ req \in chatReqs
    /\ chatReqs' = chatReqs \ {req}
    /\ \E now \in ClientTimes :
          chatMessages' =
              Append(chatMessages, chatReply(analyzeText(resp), now, req.sid))
    /\ chatLoading' = FALSE
    /\ UNCHANGED <<currentPage, dashVars, graphVars, chatInput,
                   chatHistoryLoaded, chatHistReqs, chatSends, chatHistIssued>>

----------------------------------------------------------------------------
(* Chart thread *)

\* onChange of the textarea (disabled while graphChatLoading)
setGraphChatInput(value) ==
    /\ Rendered
    /\ currentPage = "graphs"
    /\ ~graphChatLoading
    /\ value # graphChatInput
    /\ graphChatInput' = value
    /\ lastEvent' = Event("other")
    /\ UNCHANGED <<currentPage, dashVars, chatVars, graphChatMessages,
                   graphChatLoading, graphChatHistoryLoaded, graphReqs,
                   graphHistReqs, graphSends, graphHistIssued>>

\* the guard of handleSendGraphMessage
graphSendGuard == trim(graphChatInput) # <<>> /\ ~graphChatLoading

\* handleSendGraphMessage up to `await fetch(.../graphs/generate)`
handleSendGraphMessage ==
    /\ Rendered
    /\ currentPage = "graphs"
    /\ IF graphSendGuard
       THEN /\ Requests < MaxSends
            /\ lastEvent' = Event("handleSendGraphMessage:await")
            /\ graphSends' = graphSends + 1
            /\ \E now \in ClientTimes :
                  graphChatMessages' = Append(graphChatMessages,
                      [role |-> "user", content |-> Str(trim(graphChatInput)),
                       timestamp |-> now, sid |-> graphSends + 1])
            /\ graphChatInput' = <<>>
            /\ graphChatLoading' = TRUE
            /\ graphReqs' = graphReqs \cup
                  {[sid |-> graphSends + 1, text |-> Str(trim(graphChatInput))]}
       ELSE /\ lastEvent' = Event("handleSendGraphMessage:return")
            /\ UNCHANGED <<graphSends, graphChatMessages, graphChatInput,
                           graphChatLoading, graphReqs>>
    /\ UNCHANGED <<currentPage, dashVars, chatVars, graphChatHistoryLoaded,
                   graphHistReqs, graphHistIssued>>

\* graphReply without the fallback of data.error
graphReplyNoFallback(resp, text, now, sid) ==
    IF ~resp.net \/ ~resp.json
    THEN [role |-> "assistant", content |-> "Connection error: " \o resp.message,
          charts |-> <<>>, timestamp |-> now, sid |-> sid]
    ELSE IF resp.success
    THEN [role |-> "assistant",
          content |-> "Here are your charts for: \"" \o text \o "\"",
          charts |-> IF resp.hasCharts THEN resp.charts ELSE <<>>,
          timestamp |-> OrElse(resp.timestamp, now), sid |-> sid]
    ELSE [role |-> "assistant", content |-> ErrorPrefix \o resp.error,
          charts |-> <<>>, timestamp |-> now, sid |-> sid]

\* graphReply if it showed the summary of the server on success
graphReplyServerProse(resp, text, now, sid) ==
    IF ~resp.net \/ ~resp.json
    THEN [role |-> "assistant", content |-> "Connection error: " \o resp.message,
          charts |-> <<>>, timestamp |-> now, sid |-> sid]
    ELSE IF resp.success
    THEN [role |-> "assistant",
          content |-> resp.summary,
          charts |-> IF resp.hasCharts THEN resp.charts ELSE <<>>,
          timestamp |-> OrElse(resp.timestamp, now), sid |-> sid]
    ELSE [role |-> "assistant",
          content |-> ErrorPrefix \o OrElse(resp.error, "Unknown error"),
          charts |-> <<>>, timestamp |-> now, sid |-> sid]

\* the assistant message handleSendGraphMessage builds in its try / catch
graphReply(resp, text, now, sid) ==
    IF ~resp.net \/ ~resp.json
    THEN [role |-> "assistant", content |-> "Connection error: " \o resp.message,
          charts |-> <<>>, timestamp |-> now, sid |-> sid]
    ELSE IF resp.success
    THEN [role |-> "assistant",
          content |-> "Here are your charts for: \"" \o text \o "\"",
          charts |-> IF resp.hasCharts THEN resp.charts ELSE <<>>,
          timestamp |-> OrElse(resp.timestamp, now), sid |-> sid]
    ELSE [role |-> "assistant",
          content |-> ErrorPrefix \o OrElse(resp.error, "Unknown error"),
          charts |-> <<>>, timestamp |-> now, sid |-> sid]

\* handleSendGraphMessageResume without setGraphChatLoading(false)
handleSendGraphMessageResumeStaysLoading(req, resp) ==
    /\ req \in graphReqs
    /\ graphReqs' = graphReqs \ {req}
    /\ \E now \in ClientTimes :
          graphChatMessages' =
              Append(graphChatMessages, graphReply(resp, req.text, now, req.sid))
    /\ UNCHANGED <<currentPage, dashVars, chatVars, graphChatInput,
                   graphChatLoading, graphChatHistoryLoaded, graphHistReqs,
                   graphSends, graphHistIssued>>

\* handleSendGraphMessage after the await
handleSendGraphMessageResume(req, resp) ==
    /\ req \in graphReqs
    /\ graphReqs' = graphReqs \ {req}
    /\ \E now \in ClientTimes :
          graphChatMessages' =
              Append(graphChatMessages, graphReply(resp, req.text, now, req.sid))
    /\ graphChatLoading' = FALSE
    /\ UNCHANGED <<currentPage, dashVars, chatVars, graphChatInput,
                   graphChatHistoryLoaded, graphHistReqs, graphSends,
                   graphHistIssued>>

----------------------------------------------------------------------------

(* Chart normalizer: the callback of msg.charts.map *)

\* a row of chart.data: a record with the given column names, the JSON
\* value null, a JSON number, or a JSON string of two characters; `keys` is
\* what Object.keys gives for the row: the indices of the characters for a
\* string, nothing for a number
Row(keys) == [kind |-> "record", keys |-> keys]
NullRow == [kind |-> "null", keys |-> <<>>]
NumberRow == [kind |-> "number", keys |-> <<>>]
StringRow == [kind |-> "string", keys |-> <<"0", "1">>]

\* chart.data: absent, the JSON value null, a JSON object (no array), or
\* an array of rows
NoChartData(kind) == [kind |-> kind, rows |-> <<>>]
ChartRows(rows) == [kind |-> "array", rows |-> rows]

ChartData ==
    { NoChartData("absent"), NoChartData("null"), NoChartData("object") }
    \cup { ChartRows(rows) :
              rows \in { <<>>,
                         <<Row(<<>>)>>,
                         <<Row(<<"month">>)>>,
                         <<Row(<<"month", "revenue">>)>>,
                         <<Row(<<"month", "revenue">>), NullRow>>,
                         <<Row(<<"month", "">>)>>,
                         <<NumberRow>>,
                         <<StringRow>>,
                         <<NullRow>> } }

Charts ==
    [title : {"Revenue"},
     chart_type : {Undefined, "bar", "pie", "error"},
     data : ChartData,
     xKey : {Undefined, "", "month", "region"},
     yKey : {Undefined, "", "month", "revenue", "region"}]

\* allKeys.includes(key)
includes(allKeys, key) == \E i \in 1..Len(allKeys) : allKeys[i] = key

\* allKeys[i], undefined past the end
at(allKeys, i) == IF i <= Len(allKeys) THEN allKeys[i] ELSE Undefined

\* the derivation of a key without the test allKeys.includes(key)
resolveKeyWithoutMembership(key, allKeys, i) ==
    IF ~Falsy(key) THEN key ELSE at(allKeys, i + 1)

\* chart.xKey && allKeys.includes(chart.xKey) ? chart.xKey : allKeys[i]
resolveKey(key, allKeys, i) ==
    IF ~Falsy(key) /\ includes(allKeys, key) THEN key ELSE at(allKeys, i + 1)

\* what the callback does with one chart: the element it returns, or the
\* TypeError that Object.keys(firstRecord) throws when the first row is null
normalizeChart(chart) ==
    IF chart.chart_type = "error"
    THEN [outcome |-> "error"]
    ELSE IF chart.data.kind # "array" \/ Len(chart.data.rows) = 0
    THEN [outcome |-> "no-data"]
    ELSE IF chart.data.rows[1].kind = "null"
    THEN [outcome |-> "throws"]
    ELSE LET allKeys == chart.data.rows[1].keys
             xKey == resolveKey(chart.xKey, allKeys, 0)
             yKey == resolveKey(chart.yKey, allKeys, 1)
         IN  IF Falsy(xKey) \/ Falsy(yKey)
             THEN [outcome |-> "columns-undetermined", allKeys |-> allKeys,
                   xKey |-> xKey, yKey |-> yKey]
             ELSE [outcome |-> "renderable", allKeys |-> allKeys,
                   xKey |-> xKey, yKey |-> yKey]

----------------------------------------------------------------------------
(* Grouped display of the analysis thread *)

\* the calendar days of the timestamps of the model, as toDateString tells
\* them apart
DayOf(isoString) ==
    CASE isoString \in {"2026-01-02T10:00:00.000Z", "2026-01-02T09:59:58.000Z"}
            -> "2 Jan 2026"
      [] isoString = "2025-12-30T08:00:00" -> "30 Dec 2025"
      [] isoString = "2025-12-31T08:00:00" -> "31 Dec 2025"
      [] OTHER -> "Invalid Date"

\* formatDate(isoString), on the day `today`
formatDate(isoString, today) ==
    IF Falsy(isoString) THEN ""
    ELSE IF DayOf(isoString) = today THEN "Today"
    ELSE DayOf(isoString)

\* the items of the grouped sequence
Divider(label, idx) ==
    [type |-> "divider", label |-> label, idx |-> idx, message |-> Null]
MessageItem(msg, idx) ==
    [type |-> "message", label |-> "", idx |-> idx, message |-> msg]

\* the loop if it compared the date of a message with the date of the one
\* before it: lastDate is assigned for every message
RECURSIVE groupFromPrevious(_, _, _, _)
groupFromPrevious(messages, idx, lastDate, today) ==
    IF idx >= Len(messages) THEN <<>>
    ELSE LET msg == messages[idx + 1]
             dateLabel == formatDate(msg.timestamp, today)
             divides == dateLabel # "" /\ dateLabel # lastDate
         IN  (IF divides THEN <<Divider(dateLabel, idx)>> ELSE <<>>)
                \o <<MessageItem(msg, idx)>>
                \o groupFromPrevious(messages, idx + 1, dateLabel, today)

\* the body of chatMessages.forEach from message idx on (idx counts from 0),
\* with the value of lastDate
RECURSIVE groupFrom(_, _, _, _)
groupFrom(messages, idx, lastDate, today) ==
    IF idx >= Len(messages) THEN <<>>
    ELSE LET msg == messages[idx + 1]
             dateLabel == formatDate(msg.timestamp, today)
             divides == dateLabel # "" /\ dateLabel # lastDate
         IN  (IF divides THEN <<Divider(dateLabel, idx)>> ELSE <<>>)
                \o <<MessageItem(msg, idx)>>
                \o groupFrom(messages, idx + 1,
                             IF divides THEN dateLabel ELSE lastDate, today)

\* the value of the useMemo on [chatMessages]
chatGroupedMessages(messages, today) == groupFrom(messages, 0, Null, today)

\* the timestamps of the messages the model groups: of the client, of the
\* server, of a history row, and none
GroupTimes ==
    {"2026-01-02T10:00:00.000Z", "2026-01-02T09:59:58.000Z",
     "2025-12-30T08:00:00", Undefined}

\* the threads the model groups: up to three messages
GroupMessages ==
    UNION { [1..n -> [role : {"user"}, content : {"q"}, timestamp : GroupTimes,
                      sid : {0}]] : n \in 0..3 }

\* the days on which the thread is rendered
Days == {"2 Jan 2026", "3 Jan 2026"}

\* the charts of the messages the model renders
Chart(data) ==
    [title |-> "Revenue", chart_type |-> "bar", data |-> data,
     xKey |-> "month", yKey |-> "revenue"]

MessageCharts ==
    { Chart(ChartRows(<<Row(<<"month", "revenue">>)>>)),
      Chart(ChartRows(<<Row(<<"month">>)>>)),
      Chart(ChartRows(<<>>)),
      Chart(NoChartData("absent")),
      Chart(ChartRows(<<NumberRow>>)),
      Chart(ChartRows(<<StringRow>>)),
      Chart(ChartRows(<<NullRow>>)),
      [Chart(NoChartData("absent")) EXCEPT !.chart_type = "error"] }

\* msg.charts.map(callback): the elements the callback returns, in order; an
\* exception thrown by the callback for one chart ends the map and the
\* render of the page, so that no element is shown
renderCharts(charts) ==
    IF \E i \in 1..Len(charts) : normalizeChart(charts[i]).outcome = "throws"
    THEN [thrown |-> TRUE, elements |-> <<>>]
    ELSE [thrown |-> FALSE,
          elements |-> [i \in 1..Len(charts) |-> normalizeChart(charts[i])]]

----------------------------------------------------------------------------
(* Functions taken alone: a run calls one function on one argument and    *)
(* records the call in `probe`; the component stays as constructed.       *)

componentVars == <<currentPage, loading, error, aggregatedData, filterVars,
                   fetchVars, sidebarOpen, chatVars, graphVars, lastEvent>>

\* the values of the FilterState the url is built from
FilterStates ==
    [regions : {<<>>, <<West>>, <<West, NewYork>>},
     categories : {<<>>, <<HomeAndGarden>>},
     customerTenure : {<<>>, <<OneYearPlus>>},
     customerRecency : {<<>>, <<Recent>>},
     totalTransactionsMin : {0, 5},
     totalTransactionsMax : {0, 50},
     discountMin : {0, 25},
     discountMax : {0, 50, 100},
     timeFilter : {"all", "1m", "1y"}]

\* APIClient.fetchDashboardData(filters), up to the call of fetch
callFetchDashboardData(filters) ==
    /\ probe = NoProbe
    /\ probe' = [fn |-> "fetchDashboardData", filters |-> filters,
                 params |-> dashboardParams(filters),
                 url |-> dashboardUrl(filters)]
    /\ UNCHANGED componentVars

\* APIClient.fetchDashboardData(filters), from the response of fetch on
settleFetchDashboardData(resp) ==
    /\ probe = NoProbe
    /\ probe' = [fn |-> "fetchDashboardData:settled", resp |-> resp,
                 result |-> fetchDashboardData(resp)]
    /\ UNCHANGED componentVars

callAnalyzeText(resp) ==
    /\ probe = NoProbe
    /\ probe' = [fn |-> "analyzeText", resp |-> resp,
                 result |-> analyzeText(resp)]
    /\ UNCHANGED componentVars

callGenerateGraphs(resp) ==
    /\ probe = NoProbe
    /\ probe' = [fn |-> "generateGraphs", resp |-> resp,
                 result |-> generateGraphs(resp)]
    /\ UNCHANGED componentVars

renderChart(chart) ==
    /\ probe = NoProbe
    /\ probe' = [fn |-> "normalizeChart", chart |-> chart,
                 result |-> normalizeChart(chart)]
    /\ UNCHANGED componentVars

\* the render of one assistant message of the chart thread that has charts
renderMessage(charts) ==
    /\ probe = NoProbe
    /\ probe' = [fn |-> "renderCharts", charts |-> charts,
                 result |-> renderCharts(charts)]
    /\ UNCHANGED componentVars

\* a render of the analysis thread with the given messages
renderChatMessages(messages, today) ==
    /\ probe = NoProbe
    /\ probe' = [fn |-> "chatGroupedMessages", messages |-> messages,
                 today |-> today,
                 result |-> chatGroupedMessages(messages, today)]
    /\ UNCHANGED componentVars

NextApi ==
    \/ \E filters \in FilterStates : callFetchDashboardData(filters)
    \/ \E resp \in DataResponses : settleFetchDashboardData(resp)
    \/ \E resp \in AnalyzeResponses : callAnalyzeText(resp)
    \/ \E resp \in GraphResponses : callGenerateGraphs(resp)
    \/ \E chart \in Charts : renderChart(chart)
    \/ \E first, second \in MessageCharts : renderMessage(<<first, second>>)
    \/ \E messages \in GroupMessages, today \in Days :
          renderChatMessages(messages, today)

SpecApi == Init /\ [][NextApi]_vars

----------------------------------------------------------------------------

\* both threads; send responses of one of each kind, not recorded
Next ==
    \/ \E data \in FirstLoadResults : dashboardFetchResolve(data)
    \/ \E page \in Pages : setCurrentPage(page)
    \/ \E value \in InputValues : setChatInput(value)
    \/ handleSendMessage
    \/ \E req \in chatReqs, resp \in CoreAnalyzeResponses :
          handleSendMessageResume(req, resp) /\ Unobserved
    \/ \E id \in chatHistReqs, resp \in CoreHistoryResponses :
          chatHistoryResolve(id, resp) /\ Unobserved
    \/ \E value \in InputValues : setGraphChatInput(value)
    \/ handleSendGraphMessage
    \/ \E req \in graphReqs, resp \in CoreGraphResponses :
          handleSendGraphMessageResume(req, resp) /\ Unobserved
    \/ \E id \in graphHistReqs, resp \in CoreHistoryResponses :
          graphHistoryResolve(id, resp) /\ Unobserved

Spec == Init /\ [][Next]_vars

\* the analysis thread alone, every kind of response, recorded
NextChat ==
    \/ \E data \in FirstLoadResults : dashboardFetchResolve(data)
    \/ \E page \in Pages \ {"graphs"} : setCurrentPage(page)
    \/ \E value \in InputValues : setChatInput(value)
    \/ handleSendMessage
    \/ \E req \in chatReqs, resp \in AnalyzeResponses :
          /\ handleSendMessageResume(req, resp)
          /\ Observed("handleSendMessageResume", resp)
    \/ \E id \in chatHistReqs, resp \in HistoryResponses :
          /\ chatHistoryResolve(id, resp)
          /\ Observed("chatHistoryResolve", resp)

SpecChat == Init /\ [][NextChat]_vars

\* the chart thread alone, every kind of response, recorded
NextGraph ==
    \/ \E data \in FirstLoadResults : dashboardFetchResolve(data)
    \/ \E page \in Pages \ {"text"} : setCurrentPage(page)
    \/ \E value \in InputValues : setGraphChatInput(value)
    \/ handleSendGraphMessage
    \/ \E req \in graphReqs, resp \in GraphResponses :
          /\ handleSendGraphMessageResume(req, resp)
          /\ Observed("handleSendGraphMessageResume", resp)
    \/ \E id \in graphHistReqs, resp \in HistoryResponses :
          /\ graphHistoryResolve(id, resp)
          /\ Observed("graphHistoryResolve", resp)

SpecGraph == Init /\ [][NextGraph]_vars

\* a question typed into a thread
SomeQuestion == <<" ", "q", " ">>

\* both threads, every kind of history response, recorded; one question,
\* answered by a success
NextHistory ==
    \/ \E data \in FirstLoadResults : dashboardFetchResolve(data)
    \/ \E page \in Pages : setCurrentPage(page)
    \/ setChatInput(SomeQuestion)
    \/ handleSendMessage
    \/ \E req \in chatReqs :
          /\ handleSendMessageResume(req,
                [Json(200, TRUE) EXCEPT !.summary = "Revenue is up."])
          /\ Unobserved
    \/ \E id \in chatHistReqs, resp \in HistoryResponses :
          /\ chatHistoryResolve(id, resp)
          /\ Observed("chatHistoryResolve", resp)
    \/ setGraphChatInput(SomeQuestion)
    \/ handleSendGraphMessage
    \/ \E req \in graphReqs :
          /\ handleSendGraphMessageResume(req, Json(200, TRUE))
          /\ Unobserved
    \/ \E id \in graphHistReqs, resp \in HistoryResponses :
          /\ graphHistoryResolve(id, resp)
          /\ Observed("graphHistoryResolve", resp)

SpecHistory == Init /\ [][NextHistory]_vars

\* the responses of GET /data the dashboard specification draws from
DashboardResponses ==
    { DataResponse(FALSE, 0, FALSE, FALSE, <<>>),
      DataResponse(TRUE, 200, TRUE, TRUE, <<Aggregate(50, 100)>>),
      DataResponse(TRUE, 200, TRUE, TRUE, <<Aggregate(30, 100)>>),
      DataResponse(TRUE, 200, TRUE, TRUE, <<Aggregate(50, 0)>>),
      DataResponse(TRUE, 200, TRUE, TRUE,
          <<[Aggregate(50, 100) EXCEPT !.lists = FALSE]>>),
      DataResponse(TRUE, 200, TRUE, TRUE,
          <<[Aggregate(0, 0) EXCEPT !.hasFilterLists = FALSE,
                                    !.lists = FALSE]>>) }

\* the dashboard with its filters; navigation stays between the home page
\* and the dashboard, the pages without a thread
NextDash ==
    \/ \E resp \in DashboardResponses :
          dashboardFetchResolve(fetchDashboardData(resp))
    \/ \E page \in {"home", "dashboard"} : setCurrentPage(page)
    \/ toggleSidebar
    \/ \E filterType \in FilterTypes :
          \E items \in Selections(filterType) : selectOptions(filterType, items)
    \/ \E filterType \in FilterTypes : handleSelectAll(filterType)
    \/ \E filterType \in FilterTypes : handleClearFilter(filterType)
    \/ clearAllFilters
    \/ \E value \in TransactionValues : setTotalTransactionsMin(value)
    \/ \E value \in TransactionValues : setTotalTransactionsMax(value)
    \/ \E value \in DiscountValues : setDiscountMin(value)
    \/ \E value \in DiscountValues : setDiscountMax(value)
    \/ \E period \in TimeFilters : setTimeFilter(period)

SpecDash == Init /\ [][NextDash]_vars

\* the responses of GET /data the specification of all three parts draws from
FrameResponses ==
    { DataResponse(FALSE, 0, FALSE, FALSE, <<>>),
      DataResponse(TRUE, 200, TRUE, TRUE, <<Aggregate(50, 100)>>),
      DataResponse(TRUE, 200, TRUE, TRUE, <<Aggregate(30, 100)>>) }

\* the dashboard, its filters and both threads together: every handler, with
\* one input of each user action and one response of each thread request
NextFrame ==
    \/ \E resp \in FrameResponses :
          dashboardFetchResolve(fetchDashboardData(resp))
    \/ \E page \in Pages : setCurrentPage(page)
    \/ toggleSidebar
    \/ \E filterType \in FilterTypes :
          selectOptions(filterType, <<Head(Options(filterType))>>)
    \/ \E filterType \in FilterTypes : handleSelectAll(filterType)
    \/ \E filterType \in FilterTypes : handleClearFilter(filterType)
    \/ clearAllFilters
    \/ setTotalTransactionsMin(5)
    \/ setTotalTransactionsMax(5)
    \/ setDiscountMin(25)
    \/ setDiscountMax(25)
    \/ setTimeFilter("1m")
    \/ setChatInput(SomeQuestion)
    \/ handleSendMessage
    \/ \E req \in chatReqs :
          /\ handleSendMessageResume(req,
                [Json(200, TRUE) EXCEPT !.summary = "Revenue is up."])
          /\ Unobserved
    \/ \E id \in chatHistReqs :
          /\ chatHistoryResolve(id,
                [Json(200, TRUE) EXCEPT !.hasHistory = TRUE, !.history = <<Row1>>])
          /\ Unobserved
    \/ setGraphChatInput(SomeQuestion)
    \/ handleSendGraphMessage
    \/ \E req \in graphReqs :
          /\ handleSendGraphMessageResume(req, Json(200, TRUE))
          /\ Unobserved
    \/ \E id \in graphHistReqs :
          /\ graphHistoryResolve(id,
                [Json(200, TRUE) EXCEPT !.hasHistory = TRUE, !.history = <<Row1>>])
          /\ Unobserved

SpecFrame == Init /\ [][NextFrame]_vars

\* the responses of a backend whose filter metadata carries ceilings
CycleResponses ==
    { DataResponse(TRUE, 200, TRUE, TRUE, <<Aggregate(50, 100)>>),
      DataResponse(TRUE, 200, TRUE, TRUE, <<Aggregate(30, 100)>>),
      DataResponse(TRUE, 200, TRUE, TRUE, <<Aggregate(50, 0)>>) }

\* the backend returns the same transactionsMax and discountMax for every
\* request: those of the aggregate held, once one is held
SameCeilings(data) ==
    aggregatedData.present =>
       /\ data.transactionsMax = aggregatedData.transactionsMax
       /\ data.discountMax = aggregatedData.discountMax

\* a call in flight is answered by the backend of constant ceilings
constantBackendResolve ==
    \E resp \in CycleResponses :
       /\ SameCeilings(fetchDashboardData(resp))
       /\ dashboardFetchResolve(fetchDashboardData(resp))

\* the request budget leaves room for the call of a filter change and for
\* the call the adoption of the ceilings may make after it
RoomForChange == Requests + 1 < MaxSends

\* the dashboard against a backend of constant ceilings
NextCycle ==
    \/ constantBackendResolve
    \/ \E page \in {"home", "dashboard"} : setCurrentPage(page)
    \/ toggleSidebar
    \/ /\ RoomForChange
       /\ \E filterType \in FilterTypes :
             \E items \in Selections(filterType) :
                selectOptions(filterType, items)
    \/ RoomForChange /\ \E filterType \in FilterTypes : handleSelectAll(filterType)
    \/ RoomForChange /\ \E filterType \in FilterTypes : handleClearFilter(filterType)
    \/ RoomForChange /\ clearAllFilters
    \/ RoomForChange /\ \E value \in TransactionValues : setTotalTransactionsMin(value)
    \/ RoomForChange /\ \E value \in TransactionValues : setTotalTransactionsMax(value)
    \/ RoomForChange /\ \E value \in DiscountValues : setDiscountMin(value)
    \/ RoomForChange /\ \E value \in DiscountValues : setDiscountMax(value)
    \/ RoomForChange /\ \E period \in TimeFilters : setTimeFilter(period)

\* every fetch is answered: the promise of fetchDashboardData settles, with
\* the response or with null after a failure
SpecCycle == Init /\ [][NextCycle]_vars /\ WF_vars(constantBackendResolve)

----------------------------------------------------------------------------
(* Vocabulary of the properties *)

\* the text is empty or consists of whitespace only
IsBlank(text) == \A i \in 1..Len(text) : text[i] \in Whitespace

IsPrefix(s, t) == Len(s) <= Len(t) /\ SubSeq(t, 1, Len(s)) = s

Last(s) == s[Len(s)]

\* the step just taken invoked the send handler of the analysis / chart thread
ChatSendInvoked ==
    lastEvent'.op \in {"handleSendMessage:await", "handleSendMessage:return"}
GraphSendInvoked ==
    lastEvent'.op \in {"handleSendGraphMessage:await",
                       "handleSendGraphMessage:return"}

\* every request the component has in flight
network == <<chatReqs, graphReqs, chatHistReqs, graphHistReqs, dashFetches>>

----------------------------------------------------------------------------
(* C1: a send request made while the thread's pending flag is true, or     *)
(* with empty or whitespace-only input, is a no-op: messages, input and    *)
(* pending flag of the thread are unchanged and no network call is issued; *)
(* so at most one send request per thread is in flight in every state.     *)
C1_IgnoredSendIsNoOp ==
    /\ [][ /\ (ChatSendInvoked /\ (chatLoading \/ IsBlank(chatInput)))
                => UNCHANGED <<chatMessages, chatInput, chatLoading, network>>
           /\ (GraphSendInvoked /\ (graphChatLoading \/ IsBlank(graphChatInput)))
                => UNCHANGED <<graphChatMessages, graphChatInput,
                               graphChatLoading, network>> ]_vars
    /\ [](Cardinality(chatReqs) <= 1 /\ Cardinality(graphReqs) <= 1)

\* a send was requested while the analysis thread was pending, and returned
C1_Witness ==
    /\ lastEvent.op = "handleSendMessage:return"
    /\ chatLoading
    /\ Cardinality(chatReqs) = 1

(* C2: over any sequence of navigations and fetch completions each thread  *)
(* issues at most one history fetch, and its historyLoaded flag goes from  *)
(* false to true once and stays true.                                      *)
C2_HistoryFetchedOnce ==
    /\ [](chatHistIssued <= 1 /\ graphHistIssued <= 1)
    /\ [][ /\ chatHistoryLoaded => chatHistoryLoaded'
           /\ graphChatHistoryLoaded => graphChatHistoryLoaded' ]_vars

(* C3: in every step each thread's message sequence before the step is a  *)
(* prefix of its message sequence after the step.                          *)
C3_MessagesOnlyAppended ==
    [][ /\ IsPrefix(chatMessages, chatMessages')
        /\ IsPrefix(graphChatMessages, graphChatMessages') ]_vars

\* position i of `messages` holds the `role` message of send `sid`
Holds(messages, i, role, sid) ==
    messages[i].role = role /\ messages[i].sid = sid

\* in `messages` the reply of every send comes after that send's own user
\* message, and the user message of a send comes after the user message and
\* the reply of every earlier send
SendsInOrder(messages) ==
    \A k \in 1..Len(messages) :
        /\ messages[k].sid > 0 /\ messages[k].role = "assistant" =>
              \E i \in 1..(k - 1) : Holds(messages, i, "user", messages[k].sid)
        /\ messages[k].sid > 0 /\ messages[k].role = "user" =>
              \A s1 \in 1..(messages[k].sid - 1) :
                  \E i, j \in 1..(k - 1) :
                      /\ i < j
                      /\ Holds(messages, i, "user", s1)
                      /\ Holds(messages, j, "assistant", s1)

(* C4: within one thread, for accepted sends s1 then s2, the user message  *)
(* and the assistant reply of s1 both precede the user message of s2 in    *)
(* the message sequence, and the reply of each send comes after that       *)
(* send's own user message.                                                *)
C4_NoReordering ==
    [](SendsInOrder(chatMessages) /\ SendsInOrder(graphChatMessages))

\* the messages of sends that are in the sequence are in send order
InSendOrder(messages) ==
    \A i, j \in 1..Len(messages) :
        (i < j /\ messages[i].sid > 0 /\ messages[j].sid > 0) =>
            \/ messages[i].sid < messages[j].sid
            \/ /\ messages[i].sid = messages[j].sid
               /\ messages[i].role = "user"
               /\ messages[j].role = "assistant"

\* what the send handlers keep of the order: a send is accepted only when no
\* earlier send of the thread is in flight, a user message and a reply are
\* appended at the end, and the messages of sends that remain in the
\* sequence stay in send order
OrderOfRemainingMessages ==
    /\ [](InSendOrder(chatMessages) /\ InSendOrder(graphChatMessages))
    /\ [][ /\ chatSends' # chatSends =>
                /\ chatReqs = {}
                /\ chatMessages' = Append(chatMessages, Last(chatMessages'))
                /\ Last(chatMessages').role = "user"
           /\ graphSends' # graphSends =>
                /\ graphReqs = {}
                /\ graphChatMessages'
                      = Append(graphChatMessages, Last(graphChatMessages'))
                /\ Last(graphChatMessages').role = "user"
           /\ \A req \in chatReqs \ chatReqs' :
                /\ chatMessages' = Append(chatMessages, Last(chatMessages'))
                /\ Last(chatMessages').role = "assistant"
                /\ Last(chatMessages').sid = req.sid
           /\ \A req \in graphReqs \ graphReqs' :
                /\ graphChatMessages'
                      = Append(graphChatMessages, Last(graphChatMessages'))
                /\ Last(graphChatMessages').role = "assistant"
                /\ Last(graphChatMessages').sid = req.sid ]_vars

(* C5: when the network call of an accepted send resolves, with success,   *)
(* application-level failure, non-2xx status or transport error, the       *)
(* thread's pending flag becomes false; pending is true exactly while the  *)
(* call is in flight; and a send made while pending is false, with input   *)
(* that is not empty after trimming, is accepted.                          *)
C5_LeavesSending ==
    /\ [](chatLoading <=> chatReqs # {})
    /\ [](graphChatLoading <=> graphReqs # {})
    /\ [][ /\ chatReqs \ chatReqs' # {} => ~chatLoading'
           /\ graphReqs \ graphReqs' # {} => ~graphChatLoading'
           /\ (ChatSendInvoked /\ ~chatLoading /\ ~IsBlank(chatInput)) =>
                /\ chatLoading'
                /\ Len(chatMessages') = Len(chatMessages) + 1
                /\ Cardinality(chatReqs') = 1
           /\ (GraphSendInvoked /\ ~graphChatLoading /\ ~IsBlank(graphChatInput)) =>
                /\ graphChatLoading'
                /\ Len(graphChatMessages') = Len(graphChatMessages) + 1
                /\ Cardinality(graphReqs') = 1 ]_vars

\* a send of the chart thread failed and a second send has been accepted
C5_Witness ==
    /\ lastEvent.op = "handleSendGraphMessage:await"
    /\ graphSends = 2
    /\ graphChatLoading
    /\ Len(graphChatMessages) >= 3
    /\ graphChatMessages[Len(graphChatMessages) - 1].content
          = "Connection error: Failed to fetch"

----------------------------------------------------------------------------
(* Vocabulary of the properties about responses *)

SorryPrefix == "Sorry, I ran into an issue: "

\* the HTTP status is 2xx
Status2xx(r) == r.status \in 200..299

\* the request did not reach a response (transport error), or its body is
\* not JSON
TransportError(r) == ~r.net
Unparseable(r) == r.net /\ ~r.json

\* the body is a JSON payload {success: false, ...}
ApplicationFailure(r) == r.net /\ r.json /\ ~r.success

\* the step just taken resumed a handler on response lastEvent'.resp
Resumed(op) == lastEvent'.op = op

\* the reason analyzeText reports for a response that is not a success
C6_Reason(r) ==
    IF TransportError(r) THEN r.message
    ELSE IF ~Status2xx(r) THEN "API error: " \o ToString(r.status)
    ELSE IF Unparseable(r) THEN r.message
    ELSE IF r.error \in {Undefined, ""} THEN "Unknown error occurred"
    ELSE r.error

(* C6: in the analysis thread every resolved round-trip appends exactly    *)
(* one assistant message; on success (2xx, payload success) its content is *)
(* the summary and its timestamp the server's, or the client's when the    *)
(* server gave none; on a transport error, a non-2xx status or a           *)
(* {success:false} payload its content is "Sorry, I ran into an issue: "   *)
(* followed by the reason.                                                 *)
C6_AnalysisReply ==
    [][ Resumed("handleSendMessageResume") =>
          LET r == lastEvent'.resp
              m == Last(chatMessages')
          IN  /\ chatMessages' = Append(chatMessages, m)
              /\ m.role = "assistant"
              /\ IF r.net /\ Status2xx(r) /\ r.json /\ r.success
                 THEN /\ m.content = r.summary
                      /\ IF r.timestamp = Undefined
                         THEN m.timestamp \in ClientTimes
                         ELSE m.timestamp = r.timestamp
                 ELSE m.content = SorryPrefix \o C6_Reason(r) ]_vars

\* a send of the analysis thread was answered with status 500
C6_Witness ==
    /\ lastEvent.op = "handleSendMessageResume"
    /\ lastEvent.resp.status = 500
    /\ Last(chatMessages).content = "Sorry, I ran into an issue: API error: 500"

(* C7, as stated: in the chart thread a {success:false, error:e} payload   *)
(* appends exactly one assistant message with content "Sorry, I ran into   *)
(* an issue: " followed by e and an empty charts array, and pending        *)
(* returns to false.                                                       *)
C7_AsStated ==
    [][ (Resumed("handleSendGraphMessageResume")
            /\ ApplicationFailure(lastEvent'.resp)
            /\ lastEvent'.resp.error # Undefined) =>
          LET m == Last(graphChatMessages')
          IN  /\ graphChatMessages' = Append(graphChatMessages, m)
              /\ m.role = "assistant"
              /\ m.content = SorryPrefix \o lastEvent'.resp.error
              /\ m.charts = <<>>
              /\ ~graphChatLoading' ]_vars

(* C7, amended: ... with content "Sorry, I ran into an issue: " followed   *)
(* by e when e is a non-empty string and by "Unknown error" when e is      *)
(* empty or absent, with an empty charts array, and pending returns to     *)
(* false.                                                                  *)
C7_GraphApplicationFailure ==
    [][ (Resumed("handleSendGraphMessageResume")
            /\ ApplicationFailure(lastEvent'.resp)) =>
          LET e == lastEvent'.resp.error
              m == Last(graphChatMessages')
          IN  /\ graphChatMessages' = Append(graphChatMessages, m)
              /\ m.role = "assistant"
              /\ m.content = SorryPrefix \o
                    (IF e \in {Undefined, ""} THEN "Unknown error" ELSE e)
              /\ m.charts = <<>>
              /\ ~graphChatLoading' ]_vars

\* the chart thread was answered {success:false, error:"LLM timeout"}
C7_Witness ==
    /\ lastEvent.op = "handleSendGraphMessageResume"
    /\ ApplicationFailure(lastEvent.resp)
    /\ lastEvent.resp.error = "LLM timeout"
    /\ Last(graphChatMessages).content
          = "Sorry, I ran into an issue: LLM timeout"
    /\ ~graphChatLoading

(* C8: when the graph-generation request fails by transport error or by    *)
(* an unparseable body, the appended assistant message has content         *)
(* "Sorry, I ran into an issue: " followed by the reason, as in the        *)
(* analysis thread.                                                        *)
C8_GraphTransportFailure ==
    [][ (Resumed("handleSendGraphMessageResume")
            /\ (TransportError(lastEvent'.resp) \/ Unparseable(lastEvent'.resp))) =>
          /\ Len(graphChatMessages') = Len(graphChatMessages) + 1
          /\ Last(graphChatMessages').role = "assistant"
          /\ Last(graphChatMessages').content
                = SorryPrefix \o lastEvent'.resp.message ]_vars

(* C9: a non-2xx response to a chart-thread graph-generation request never *)
(* results in an assistant message that carries the success template and   *)
(* charts, whatever the JSON body.                                         *)
C9_GraphNon2xxIsFailure ==
    [][ (Resumed("handleSendGraphMessageResume")
            /\ lastEvent'.resp.net /\ ~Status2xx(lastEvent'.resp)) =>
          \A req \in graphReqs \ graphReqs' :
              /\ Last(graphChatMessages').content
                    # "Here are your charts for: \"" \o req.text \o "\""
              /\ Last(graphChatMessages').charts = <<>> ]_vars

\* the history fetch failed: transport error, non-2xx status, unparseable
\* body or a success:false payload
HistoryFetchFailed(r) ==
    TransportError(r) \/ ~Status2xx(r) \/ Unparseable(r) \/ ApplicationFailure(r)

(* C10: for both threads a history fetch that fails adds no messages to   *)
(* the thread and still sets historyLoaded to true, after which no further *)
(* history fetch is issued for that thread.                                *)
C10_FailedHistoryFetch ==
    [][ /\ (Resumed("chatHistoryResolve") /\ HistoryFetchFailed(lastEvent'.resp))
              => (chatMessages' = chatMessages /\ chatHistoryLoaded')
        /\ (Resumed("graphHistoryResolve") /\ HistoryFetchFailed(lastEvent'.resp))
              => (graphChatMessages' = graphChatMessages /\ graphChatHistoryLoaded')
        /\ chatHistoryLoaded
              => (chatHistoryLoaded' /\ chatHistIssued' = chatHistIssued)
        /\ graphChatHistoryLoaded
              => (graphChatHistoryLoaded' /\ graphHistIssued' = graphHistIssued)
      ]_vars

----------------------------------------------------------------------------
\* the history response is a success: status 2xx and a payload
\* {success: true, ...}; RowsOf is its history, empty when absent
HistoryFetched(r) == r.net /\ Status2xx(r) /\ r.json /\ r.success
RowsOf(r) == IF r.hasHistory THEN r.history ELSE <<>>

\* `messages` is the expansion of `rows`: row i gives message 2i-1, a user
\* message, and message 2i, an assistant message, both with the row's
\* timestamp
ExpandsRows(messages, rows) ==
    /\ Len(messages) = 2 * Len(rows)
    /\ \A i \in 1..Len(rows) :
          /\ messages[2 * i - 1].role = "user"
          /\ messages[2 * i - 1].content = rows[i].user_message
          /\ messages[2 * i - 1].timestamp = rows[i].created_at
          /\ messages[2 * i].role = "assistant"
          /\ messages[2 * i].timestamp = rows[i].created_at

(* C11: hydration from a fetched history of n >= 1 rows sets the thread's  *)
(* messages to 2n messages, row by row a user message then an assistant    *)
(* message with the row's timestamp; the assistant content is the row's    *)
(* assistant_response in the analysis thread, and the placeholder text     *)
(* with an empty charts array in the chart thread.  A fetched history of   *)
(* no rows leaves the messages as they are.                                *)
C11_HydrationExpandsRows ==
    [][ /\ (Resumed("chatHistoryResolve") /\ HistoryFetched(lastEvent'.resp)) =>
              LET rows == RowsOf(lastEvent'.resp)
              IN  IF rows = <<>> THEN chatMessages' = chatMessages
                  ELSE /\ ExpandsRows(chatMessages', rows)
                       /\ \A i \in 1..Len(rows) :
                             chatMessages'[2 * i].content
                                = rows[i].assistant_response
        /\ (Resumed("graphHistoryResolve") /\ HistoryFetched(lastEvent'.resp)) =>
              LET rows == RowsOf(lastEvent'.resp)
              IN  IF rows = <<>> THEN graphChatMessages' = graphChatMessages
                  ELSE /\ ExpandsRows(graphChatMessages', rows)
                       /\ \A i \in 1..Len(rows) :
                             /\ graphChatMessages'[2 * i].content
                                   = GraphPlaceholder
                             /\ graphChatMessages'[2 * i].charts = <<>>
      ]_vars

\* the chart thread was hydrated from a history of two rows
C11_Witness ==
    /\ lastEvent.op = "graphHistoryResolve"
    /\ HistoryFetched(lastEvent.resp)
    /\ Len(RowsOf(lastEvent.resp)) = 2
    /\ Len(graphChatMessages) = 4
    /\ graphChatMessages[3].content = "old question 2"
    /\ graphChatMessages[4].content = GraphPlaceholder

----------------------------------------------------------------------------
(* Vocabulary of the properties about the url of the dashboard fetch *)

ListParams == <<"regions", "categories", "customerTenure", "customerRecency">>
IntParams == <<"totalTransactionsMin", "totalTransactionsMax">>
DecimalParams == <<"discountMin", "discountMax">>
ParamOrder == ListParams \o IntParams \o DecimalParams \o <<"timeFilter">>

Names(seq) == {seq[i] : i \in 1..Len(seq)}

\* the place of a parameter name in the fixed order
Place(name) == CHOOSE i \in 1..Len(ParamOrder) : ParamOrder[i] = name

\* the field has the default of its type
IsDefault(filters, name) ==
    IF name \in Names(ListParams) THEN filters[name] = <<>>
    ELSE IF name = "timeFilter" THEN filters[name] = "all"
    ELSE filters[name] = 0

\* the elements with a comma between neighbours
RECURSIVE CommaJoined(_)
CommaJoined(items) ==
    IF Len(items) = 0 THEN ""
    ELSE IF Len(items) = 1 THEN Str(items[1])
    ELSE CommaJoined(SubSeq(items, 1, Len(items) - 1))
            \o "," \o Str(items[Len(items)])

(* C13: for every FilterState the parameters fetchDashboardData appends    *)
(* are those of the fields that are not at the default of their type       *)
(* (empty list, 0, "all"), each once, in the order regions, categories,    *)
(* customerTenure, customerRecency, totalTransactionsMin,                  *)
(* totalTransactionsMax, discountMin, discountMax, timeFilter; a list      *)
(* parameter has the comma-joined elements as its value.                   *)
C13_QueryParameters ==
    probe.fn = "fetchDashboardData" =>
        LET filters == probe.filters
            params == probe.params
        IN  /\ \A name \in Names(ParamOrder) :
                  (\E i \in 1..Len(params) : params[i].name = name)
                     <=> ~IsDefault(filters, name)
            /\ \A i \in 1..Len(params) : params[i].name \in Names(ParamOrder)
            /\ \A i, j \in 1..Len(params) :
                  i < j => Place(params[i].name) < Place(params[j].name)
            /\ \A i \in 1..Len(params) :
                  /\ params[i].name \in Names(ListParams) =>
                        params[i].value = CommaJoined(filters[params[i].name])
                  /\ params[i].name \in Names(IntParams) =>
                        params[i].value = ToString(filters[params[i].name])
                  /\ params[i].name = "timeFilter" =>
                        params[i].value = filters.timeFilter
            /\ (params = <<>>) <=> (probe.url = "/data")

\* regions ["West"] and totalTransactionsMin 5, every other field at its
\* default
C13_Witness ==
    /\ probe.fn = "fetchDashboardData"
    /\ probe.filters.regions = <<West>>
    /\ probe.filters.totalTransactionsMin = 5
    /\ probe.url = "/data?regions=West&totalTransactionsMin=5"

(* C14: fetchDashboardData resolves to the first element of the body when  *)
(* the status is 2xx and the body is a non-empty JSON array, and to null   *)
(* in every other case: fetch rejects, the status is not 2xx, the body is  *)
(* not JSON, is no array, or is the empty array.                           *)
C14_DashboardDataOrNull ==
    probe.fn = "fetchDashboardData:settled" =>
        LET r == probe.resp
        IN  IF r.net /\ Status2xx(r) /\ r.json /\ r.array /\ r.rows # <<>>
            THEN probe.result = r.rows[1]
            ELSE probe.result = NoData

\* a 200 whose body is an array of two aggregates gave the first of them
C14_Witness ==
    /\ probe.fn = "fetchDashboardData:settled"
    /\ probe.resp.status = 200
    /\ Len(probe.resp.rows) = 2
    /\ probe.result = Aggregate(30, 100)
    /\ probe.result # probe.resp.rows[2]

\* the call recorded in `probe` is of analyzeText or of generateGraphs
ApiCall == probe.fn \in {"analyzeText", "generateGraphs"}

\* the response is a success: status 2xx and a payload with success true
Succeeded(r) == r.net /\ Status2xx(r) /\ r.json /\ r.success

\* what the claim says of every call but for the error of a {success:false}
\* payload
ApiResultShape ==
    LET r == probe.resp
        result == probe.result
    IN  /\ result.success <=> Succeeded(r)
        /\ (probe.fn = "generateGraphs" /\ result.success) =>
              result.charts = (IF r.hasCharts THEN r.charts ELSE <<>>)
        /\ (probe.fn = "analyzeText" /\ result.success) =>
              (result.summary = r.summary /\ result.timestamp = r.timestamp)
        /\ ~result.success => result.error \notin {Undefined, Null}

(* C15, as stated: analyzeText and generateGraphs return {success:true}    *)
(* only for a 2xx response whose payload has success true (generateGraphs  *)
(* with the charts array, empty when absent) and {success:false, error}    *)
(* with a string error otherwise; a {success:false, error:e} payload is    *)
(* returned with the same error e.                                         *)
C15_AsStated ==
    ApiCall =>
        /\ ApiResultShape
        /\ (Status2xx(probe.resp) /\ ApplicationFailure(probe.resp)
               /\ probe.resp.error # Undefined) =>
              probe.result.error = probe.resp.error

(* C15, amended: ... a {success:false, error:e} payload is returned with   *)
(* the same error e when e is a non-empty string, and with the error       *)
(* "Unknown error occurred" when e is empty or absent.                     *)
C15_ApiResults ==
    ApiCall =>
        /\ ApiResultShape
        /\ (Status2xx(probe.resp) /\ ApplicationFailure(probe.resp)) =>
              probe.result.error =
                 (IF probe.resp.error \in {Undefined, ""}
                  THEN "Unknown error occurred"
                  ELSE probe.resp.error)

\* generateGraphs was answered 200 {success:true} without charts
C15_Witness ==
    /\ probe.fn = "generateGraphs"
    /\ Succeeded(probe.resp)
    /\ ~probe.resp.hasCharts
    /\ probe.result.success
    /\ probe.result.charts = <<>>

----------------------------------------------------------------------------
(* Vocabulary of the properties about the chart normalizer *)

\* the property names of the first row: the columns of a record, the
\* indices of a string; a number or null has none
FirstRowKeys(chart) == chart.data.rows[1].keys

\* the key the chart names when the first row has it, else the n-th column
\* of the first row, else undefined
ResolvedKey(chart, key, n) ==
    IF key # Undefined /\ key \in Names(FirstRowKeys(chart)) THEN key
    ELSE IF n <= Len(FirstRowKeys(chart)) THEN FirstRowKeys(chart)[n]
    ELSE Undefined

\* the outcome the four rules give, taken in their order
Classified(chart) ==
    IF chart.chart_type = "error" THEN "error"
    ELSE IF chart.data.kind # "array" \/ chart.data.rows = <<>> THEN "no-data"
    ELSE IF \/ ResolvedKey(chart, chart.xKey, 1) = Undefined
            \/ ResolvedKey(chart, chart.yKey, 2) = Undefined
         THEN "columns-undetermined"
    ELSE "renderable"

(* C20: the normalizer gives every chart exactly one of the four outcomes, *)
(* by the rules in their order: error placeholder when chart_type is       *)
(* "error"; else no-data placeholder when data is missing, no array or     *)
(* empty; else columns-undetermined placeholder when the resolved xKey or  *)
(* yKey is undefined; else renderable.                                     *)
C20_NormalizerClassifies ==
    probe.fn = "normalizeChart" =>
        probe.result.outcome = Classified(probe.chart)

\* the same, for the charts whose first row is not null and has no column
\* with the empty name
NormalizerOnOtherCharts ==
    (probe.fn = "normalizeChart"
        /\ ~(probe.chart.chart_type # "error"
               /\ probe.chart.data.kind = "array"
               /\ probe.chart.data.rows # <<>>
               /\ \/ probe.chart.data.rows[1].kind = "null"
                  \/ "" \in Names(probe.chart.data.rows[1].keys))) =>
        probe.result.outcome = Classified(probe.chart)

----------------------------------------------------------------------------
(* Vocabulary of the properties about the frame of the handlers *)

\* the fields of the two threads
ChatThread == <<chatMessages, chatInput, chatLoading, chatHistoryLoaded>>
GraphThread == <<graphChatMessages, graphChatInput, graphChatLoading,
                 graphChatHistoryLoaded>>

\* a step of a handler of the analysis thread: input, send, response, history
AnalysisStep ==
    \/ \E value \in InputValues \cup {SomeQuestion} : setChatInput(value)
    \/ handleSendMessage
    \/ \E req \in chatReqs : \E resp \in AnalyzeResponses :
          handleSendMessageResume(req, resp)
    \/ \E id \in chatHistReqs : \E resp \in HistoryResponses :
          chatHistoryResolve(id, resp)

\* a step of a handler of the chart thread
ChartStep ==
    \/ \E value \in InputValues \cup {SomeQuestion} : setGraphChatInput(value)
    \/ handleSendGraphMessage
    \/ \E req \in graphReqs : \E resp \in GraphResponses :
          handleSendGraphMessageResume(req, resp)
    \/ \E id \in graphHistReqs : \E resp \in HistoryResponses :
          graphHistoryResolve(id, resp)

\* a step of a handler of the filters, or of the continuation of the
\* dashboard fetch
FilterStep ==
    \/ \E filterType \in FilterTypes :
          \/ \E items \in Selections(filterType) : selectOptions(filterType, items)
          \/ handleSelectAll(filterType)
          \/ handleClearFilter(filterType)
    \/ clearAllFilters
    \/ \E value \in TransactionValues :
          setTotalTransactionsMin(value) \/ setTotalTransactionsMax(value)
    \/ \E value \in DiscountValues : setDiscountMin(value) \/ setDiscountMax(value)
    \/ \E period \in TimeFilters : setTimeFilter(period)
    \/ \E resp \in DataResponses : dashboardFetchResolve(fetchDashboardData(resp))

(***************************************************************************)
(* C12: the two threads and the filters are independent.  Every step of    *)
(* the analysis thread (input, send, response, history hydration) leaves   *)
(* the messages, input, pending flag and historyLoaded of the chart thread *)
(* and all nine filter fields unchanged; every step of the chart thread    *)
(* leaves the analysis thread and the filters unchanged; every step of a   *)
(* filter handler leaves both threads unchanged.                           *)
(***************************************************************************)
C12_ThreadsAndFiltersIndependent ==
    [][ /\ AnalysisStep => UNCHANGED <<GraphThread, filterVars>>
        /\ ChartStep => UNCHANGED <<ChatThread, filterVars>>
        /\ FilterStep => UNCHANGED <<ChatThread, GraphThread>> ]_vars

\* both threads hold messages and a typed question while a filter is set
C12_Witness ==
    /\ chatMessages # <<>>
    /\ graphChatMessages # <<>>
    /\ chatInput = SomeQuestion
    /\ graphChatInput = SomeQuestion
    /\ selectedRegions.items # <<>>
    /\ timeFilter = "1m"

----------------------------------------------------------------------------
(* Vocabulary of the properties about the dashboard fetch *)

\* the state that is no filter field: the page, the sidebar, both threads
OtherState == <<currentPage, sidebarOpen, ChatThread, GraphThread>>

(***************************************************************************)
(* C16: every step that changes a filter field (regions, categories,       *)
(* tenure, recency, totalTransactionsMin/Max, discountMin/Max, timeFilter) *)
(* issues one new fetchDashboardData call, and its argument is the         *)
(* complete filter state after the step; a step that changes the page, the *)
(* sidebar, a chat input, the messages or a pending flag issues none.      *)
(***************************************************************************)
C16_FilterChangeFetches ==
    [][ /\ FilterState' # FilterState =>
              /\ dashIssued' = dashIssued + 1
              /\ lastFetch' = FilterState'
        /\ OtherState' # OtherState => dashIssued' = dashIssued ]_vars

\* a fetch was issued for a selection and a period the user chose, after the
\* page, the sidebar and the analysis thread had changed
C16_Witness ==
    /\ dashIssued = 3
    /\ lastFetch = FilterState
    /\ lastFetch.regions # <<>>
    /\ lastFetch.timeFilter = "1m"
    /\ chatMessages # <<>>
    /\ ~sidebarOpen

(***************************************************************************)
(* C17: when a dashboard fetch resolves to data with filterLists, the step *)
(* sets totalTransactionsMax to the data's filterLists.transactionsMax and *)
(* discountMax to its filterLists.discountMax, and leaves the four         *)
(* categorical filters, totalTransactionsMin, discountMin and timeFilter   *)
(* unchanged.                                                              *)
(***************************************************************************)
C17_CeilingsAdopted ==
    [][ \A resp \in DataResponses \cup DashboardResponses :
           LET data == fetchDashboardData(resp)
           IN  (data.present /\ data.hasFilterLists
                   /\ dashboardFetchResolve(data)) =>
                  /\ totalTransactionsMax' = data.transactionsMax
                  /\ discountMax' = data.discountMax
                  /\ UNCHANGED <<selectedRegions, selectedCategories,
                                 selectedTenure, selectedRecency,
                                 totalTransactionsMin, discountMin,
                                 timeFilter>> ]_vars

\* the second fetch resolved with a ceiling of 30 while a region was selected
C17_Witness ==
    /\ aggregatedData.present
    /\ aggregatedData.hasFilterLists
    /\ aggregatedData.id = 2
    /\ aggregatedData.transactionsMax = 30
    /\ totalTransactionsMax = 30
    /\ selectedRegions.items # <<>>

----------------------------------------------------------------------------
(* Vocabulary of the properties about the reset of the filters *)

\* the data of the last successful response carries ceilings
HoldsCeilings == aggregatedData.present /\ aggregatedData.hasFilterLists

(***************************************************************************)
(* C18: a clear-all step empties the four categorical filters, sets        *)
(* totalTransactionsMin and discountMin to 0 and timeFilter to "all", and  *)
(* sets totalTransactionsMax and discountMax to the ceilings of the last   *)
(* successful dashboard response, or to 50 and 1.0 (100 hundredths) when   *)
(* no response with ceilings is held.                                      *)
(***************************************************************************)
C18_ClearAllRestoresCeilings ==
    [][ clearAllFilters =>
           /\ selectedRegions'.items = <<>>
           /\ selectedCategories'.items = <<>>
           /\ selectedTenure'.items = <<>>
           /\ selectedRecency'.items = <<>>
           /\ totalTransactionsMin' = 0
           /\ discountMin' = 0
           /\ timeFilter' = "all"
           /\ totalTransactionsMax' =
                 IF HoldsCeilings THEN aggregatedData.transactionsMax ELSE 50
           /\ discountMax' =
                 IF HoldsCeilings THEN aggregatedData.discountMax ELSE 100 ]_vars

\* the same for the clear-all steps taken while no held ceiling is 0
ClearAllOnPositiveCeilings ==
    [][ (clearAllFilters
            /\ (HoldsCeilings => /\ aggregatedData.transactionsMax # 0
                                 /\ aggregatedData.discountMax # 0)) =>
           /\ FilterState'.regions = <<>>
           /\ FilterState'.categories = <<>>
           /\ FilterState'.customerTenure = <<>>
           /\ FilterState'.customerRecency = <<>>
           /\ totalTransactionsMin' = 0
           /\ discountMin' = 0
           /\ timeFilter' = "all"
           /\ totalTransactionsMax' =
                 IF HoldsCeilings THEN aggregatedData.transactionsMax ELSE 50
           /\ discountMax' =
                 IF HoldsCeilings THEN aggregatedData.discountMax ELSE 100 ]_vars

----------------------------------------------------------------------------
(* Vocabulary of the properties about one categorical filter *)

\* the filter fields other than the categorical filter `filterType`
OtherFilters(filterType) ==
    << [t \in FilterTypes \ {filterType} |-> Selected(t).items],
       totalTransactionsMin, totalTransactionsMax, discountMin, discountMax,
       timeFilter >>

(***************************************************************************)
(* C19: a select-all step on one categorical filter sets that filter to    *)
(* the full candidate list of the held dashboard response, and is a no-op  *)
(* when the held response has no filterLists; a clear step on one          *)
(* categorical filter sets that filter to empty; both leave every other    *)
(* filter field unchanged.                                                 *)
(***************************************************************************)
C19_SelectAllAndClearOneFilter ==
    [][ \A filterType \in FilterTypes :
           /\ handleSelectAll(filterType) =>
                 /\ Selected(filterType)'.items =
                       IF aggregatedData.hasFilterLists
                       THEN Options(filterType)
                       ELSE Selected(filterType).items
                 /\ ~aggregatedData.hasFilterLists =>
                       UNCHANGED <<filterVars, fetchVars>>
                 /\ UNCHANGED OtherFilters(filterType)
           /\ handleClearFilter(filterType) =>
                 /\ Selected(filterType)'.items = <<>>
                 /\ UNCHANGED OtherFilters(filterType) ]_vars

\* all categories are selected by Select All (the held list itself is
\* stored) while one region is selected
C19_Witness ==
    /\ aggregatedData.present
    /\ selectedCategories.ref = aggregatedData.id
    /\ selectedCategories.items = <<Toys, HomeAndGarden>>
    /\ selectedRegions.items = <<West>>
    /\ selectedRecency.items = <<>>
    /\ dashIssued = 3

----------------------------------------------------------------------------
(* Vocabulary of the properties about the keys of a chart *)

\* the normalizer was called on a chart and derived its keys: the chart is
\* no error chart, its data is a non-empty array, and the first row is not
\* null
KeysDerived ==
    /\ probe.fn = "normalizeChart"
    /\ probe.chart.chart_type # "error"
    /\ probe.chart.data.kind = "array"
    /\ probe.chart.data.rows # <<>>
    /\ probe.chart.data.rows[1].kind # "null"

C30_RenderableKeysDistinct ==
    (probe.fn = "normalizeChart" /\ probe.result.outcome = "renderable") =>
        /\ probe.result.xKey \in Names(FirstRowKeys(probe.chart))
        /\ probe.result.yKey \in Names(FirstRowKeys(probe.chart))
        /\ probe.result.xKey # probe.result.yKey

\* the part of it that holds: both resolved keys of a renderable chart are
\* property names of the first row
RenderableKeysAreColumns ==
    (probe.fn = "normalizeChart" /\ probe.result.outcome = "renderable") =>
        /\ probe.result.xKey \in Names(FirstRowKeys(probe.chart))
        /\ probe.result.yKey \in Names(FirstRowKeys(probe.chart))

----------------------------------------------------------------------------
(* Vocabulary of the properties about the charts of one message *)

\* the data of the chart is missing, no array, empty, or an array whose
\* first element is no record
Malformed(chart) ==
    \/ chart.data.kind # "array"
    \/ chart.data.rows = <<>>
    \/ chart.data.rows[1].kind # "record"

Placeholders == {"error", "no-data", "columns-undetermined"}

(***************************************************************************)
(* C22: the normalizer never throws on malformed data.  Rendering the      *)
(* charts of a message throws for no chart; every chart whose data is      *)
(* missing, no array, empty, or an array whose first element is no record  *)
(* (null, a number, a string) gets a placeholder; and every chart of the   *)
(* message gets the element it gets when it is normalized alone.           *)
(***************************************************************************)
C22_MalformedDataGivesPlaceholder ==
    probe.fn = "renderCharts" =>
        /\ ~probe.result.thrown
        /\ \A i \in 1..Len(probe.charts) :
              /\ probe.result.elements[i] = normalizeChart(probe.charts[i])
              /\ Malformed(probe.charts[i]) =>
                    probe.result.elements[i].outcome \in Placeholders

\* the same, for the messages none of whose charts has a first row that is
\* null or a string
MessagesOfOtherCharts ==
    (probe.fn = "renderCharts"
        /\ \A i \in 1..Len(probe.charts) :
              \/ probe.charts[i].data.rows = <<>>
              \/ probe.charts[i].data.rows[1].kind \notin {"null", "string"}) =>
        /\ ~probe.result.thrown
        /\ \A i \in 1..Len(probe.charts) :
              /\ probe.result.elements[i] = normalizeChart(probe.charts[i])
              /\ Malformed(probe.charts[i]) =>
                    probe.result.elements[i].outcome \in Placeholders

----------------------------------------------------------------------------
(* Vocabulary of the properties about an accepted send *)

\* `after` is `before` with one user message appended whose content is the
\* trimmed `input`; the input is empty and the thread pending afterwards
Optimistic(before, after, input, inputAfter, pendingAfter) ==
    /\ Len(after) = Len(before) + 1
    /\ SubSeq(after, 1, Len(before)) = before
    /\ Last(after).role = "user"
    /\ Last(after).content = Str(trim(input))
    /\ inputAfter = <<>>
    /\ pendingAfter

\* the sends whose assistant message is in `messages`
Replied(messages) ==
    { messages[i].sid : i \in { n \in 1..Len(messages) :
                                   /\ messages[n].role = "assistant"
                                   /\ messages[n].sid > 0 } }

\* the sends whose network call is in flight
Calls(reqs) == { req.sid : req \in reqs }

(***************************************************************************)
(* C23: an accepted send is optimistic and ordered.  The step that accepts *)
(* a send, in either thread, appends exactly one user message whose        *)
(* content is the trimmed input, empties the input and sets the pending    *)
(* flag, while the call it issues is still in flight and has no assistant  *)
(* message; the assistant message of a send is appended only by the step   *)
(* in which its call resolves.                                             *)
(***************************************************************************)
C23_OptimisticSend ==
    [][ /\ lastEvent'.op = "handleSendMessage:await" =>
              /\ Optimistic(chatMessages, chatMessages', chatInput,
                            chatInput', chatLoading')
              /\ Calls(chatReqs') = Calls(chatReqs) \cup {chatSends'}
              /\ chatSends' \notin Replied(chatMessages')
        /\ lastEvent'.op = "handleSendGraphMessage:await" =>
              /\ Optimistic(graphChatMessages, graphChatMessages',
                            graphChatInput, graphChatInput', graphChatLoading')
              /\ Calls(graphReqs') = Calls(graphReqs) \cup {graphSends'}
              /\ graphSends' \notin Replied(graphChatMessages')
        /\ Replied(chatMessages') \ Replied(chatMessages)
              \subseteq Calls(chatReqs) \ Calls(chatReqs')
        /\ Replied(graphChatMessages') \ Replied(graphChatMessages)
              \subseteq Calls(graphReqs) \ Calls(graphReqs') ]_vars

\* the analysis thread waits for the reply to the question " q ": its last
\* message is the user message "q" and the input is empty
C23_Witness ==
    /\ chatLoading
    /\ chatReqs # {}
    /\ chatInput = <<>>
    /\ Last(chatMessages).role = "user"
    /\ Last(chatMessages).content = "q"
    /\ Last(chatMessages).sid = chatSends

----------------------------------------------------------------------------
(* Vocabulary of the properties about a generated reply *)

\* the response is a success: a 2xx JSON payload {success: true, ...}
GraphSuccess(r) == r.net /\ Status2xx(r) /\ r.json /\ r.success

(***************************************************************************)
(* C24: in the chart thread a successful graph-generation response appends *)
(* exactly one assistant message; its content is the fixed template        *)
(* "Here are your charts for: " with the trimmed question of the send in   *)
(* quotes, never the prose of the server, and its charts field is the      *)
(* charts array of the response, or the empty array when the response has  *)
(* none.                                                                   *)
(***************************************************************************)
C24_ChartsReply ==
    [][ (Resumed("handleSendGraphMessageResume")
            /\ GraphSuccess(lastEvent'.resp)) =>
          \A req \in graphReqs \ graphReqs' :
             LET m == Last(graphChatMessages')
             IN  /\ graphChatMessages' = Append(graphChatMessages, m)
                 /\ m.role = "assistant"
                 /\ m.content = "Here are your charts for: \"" \o req.text \o "\""
                 /\ m.charts = IF lastEvent'.resp.hasCharts
                               THEN lastEvent'.resp.charts ELSE <<>> ]_vars

\* the question " q " was answered with one chart and a summary
C24_Witness ==
    /\ lastEvent.op = "handleSendGraphMessageResume"
    /\ GraphSuccess(lastEvent.resp)
    /\ lastEvent.resp.summary = "Revenue by month."
    /\ Last(graphChatMessages).content = "Here are your charts for: \"q\""
    /\ Last(graphChatMessages).charts = <<SomeChart>>

----------------------------------------------------------------------------
(* Vocabulary of the properties about the grouped display *)

\* the messages of a grouped sequence, in order
RECURSIVE MessagesOf(_)
MessagesOf(groups) ==
    IF groups = <<>> THEN <<>>
    ELSE (IF Head(groups).type = "message" THEN <<Head(groups).message>>
          ELSE <<>>) \o MessagesOf(Tail(groups))

\* the place of the i-th message in a grouped sequence
PlaceOf(groups, i) ==
    CHOOSE p \in 1..Len(groups) :
       /\ groups[p].type = "message"
       /\ Cardinality({q \in 1..p : groups[q].type = "message"}) = i

\* a divider with the given label stands immediately before the i-th message
DividerBefore(groups, i, label) ==
    /\ PlaceOf(groups, i) > 1
    /\ groups[PlaceOf(groups, i) - 1].type = "divider"
    /\ groups[PlaceOf(groups, i) - 1].label = label

\* some divider stands immediately before the i-th message
DividedBefore(groups, i) ==
    /\ PlaceOf(groups, i) > 1
    /\ groups[PlaceOf(groups, i) - 1].type = "divider"

\* the formatted date of the nearest message before the i-th that has one
RECURSIVE DateBefore(_, _, _)
DateBefore(messages, i, today) ==
    IF i = 1 THEN Null
    ELSE IF formatDate(messages[i - 1].timestamp, today) # ""
    THEN formatDate(messages[i - 1].timestamp, today)
    ELSE DateBefore(messages, i - 1, today)

\* the thread was grouped
Grouped == probe.fn = "chatGroupedMessages"

(***************************************************************************)
(* C25, as stated: the grouped sequence is a projection of the messages:   *)
(* without its dividers it is the message sequence in order, and a divider *)
(* labelled with the formatted date of a message stands immediately before *)
(* that message if and only if the message is the first one or its         *)
(* formatted date differs from the formatted date of the message before    *)
(* it.                                                                     *)
(***************************************************************************)
C25_AsStated ==
    Grouped =>
        /\ MessagesOf(probe.result) = probe.messages
        /\ \A i \in 1..Len(probe.messages) :
              LET date == formatDate(probe.messages[i].timestamp, probe.today)
              IN  DividerBefore(probe.result, i, date)
                     <=> \/ i = 1
                         \/ date # formatDate(probe.messages[i - 1].timestamp,
                                              probe.today)

(***************************************************************************)
(* C25, amended: ... a divider stands immediately before a message if and  *)
(* only if the message has a formatted date (its timestamp is present) and *)
(* that date differs from the formatted date of the nearest earlier        *)
(* message that has one, or no earlier message has one; the divider is     *)
(* labelled with the formatted date of the message, and every divider      *)
(* stands before a message.                                                *)
(***************************************************************************)
C25_GroupedProjection ==
    Grouped =>
        /\ MessagesOf(probe.result) = probe.messages
        /\ \A p \in 1..Len(probe.result) :
              probe.result[p].type = "divider" =>
                 /\ p < Len(probe.result)
                 /\ probe.result[p + 1].type = "message"
        /\ \A i \in 1..Len(probe.messages) :
              LET date == formatDate(probe.messages[i].timestamp, probe.today)
              IN  /\ DividedBefore(probe.result, i)
                         <=> /\ date # ""
                             /\ date # DateBefore(probe.messages, i, probe.today)
                  /\ DividedBefore(probe.result, i) =>
                         DividerBefore(probe.result, i, date)

\* three messages of 30 Dec, of no date and of today are shown under the
\* dividers "30 Dec 2025" and "Today"
C25_Witness ==
    /\ Grouped
    /\ Len(probe.messages) = 3
    /\ probe.messages[2].timestamp = Undefined
    /\ Len(probe.result) = 5
    /\ probe.result[1].type = "divider"
    /\ probe.result[1].label = "30 Dec 2025"
    /\ probe.result[4].type = "divider"
    /\ probe.result[4].label = "Today"

----------------------------------------------------------------------------
(* Vocabulary of the properties about the roles of a thread *)

\* user, assistant, user, assistant, ..., ending with an assistant message
Alternates(messages) ==
    /\ Len(messages) % 2 = 0
    /\ \A i \in 1..Len(messages) :
          messages[i].role = IF i % 2 = 1 THEN "user" ELSE "assistant"

\* the last message is the user message of the send in flight
EndsWithSend(messages, reqs) ==
    /\ messages # <<>>
    /\ Last(messages).role = "user"
    /\ Last(messages).sid \in Calls(reqs)

\* the user message of every send of the thread is in `messages`
NothingDropped(messages, sends) ==
    \A s \in 1..sends : \E i \in 1..Len(messages) : Holds(messages, i, "user", s)

(***************************************************************************)
(* C26: in each thread, whenever the thread is quiescent (not pending and  *)
(* no history fetch in flight) its messages alternate user, assistant,     *)
(* user, assistant, starting with a user message and ending with an        *)
(* assistant message; while the thread is pending its last message is the  *)
(* user message of the send in flight.                                     *)
(***************************************************************************)
C26_RolesAlternate ==
    /\ (~chatLoading /\ chatHistReqs = {}) => Alternates(chatMessages)
    /\ chatLoading => EndsWithSend(chatMessages, chatReqs)
    /\ (~graphChatLoading /\ graphHistReqs = {}) => Alternates(graphChatMessages)
    /\ graphChatLoading => EndsWithSend(graphChatMessages, graphReqs)

\* the same for the threads in which no hydration has dropped the user
\* message of a send
RolesAlternateWhenNothingDropped ==
    /\ NothingDropped(chatMessages, chatSends) =>
          /\ (~chatLoading /\ chatHistReqs = {}) => Alternates(chatMessages)
          /\ chatLoading => EndsWithSend(chatMessages, chatReqs)
    /\ NothingDropped(graphChatMessages, graphSends) =>
          /\ (~graphChatLoading /\ graphHistReqs = {}) =>
                Alternates(graphChatMessages)
          /\ graphChatLoading => EndsWithSend(graphChatMessages, graphReqs)

(***************************************************************************)
(* C27: when no dashboard fetch is in flight, the held aggregate (or       *)
(* error) is the result of the fetch issued for the current filter state:  *)
(* the result stored last is that of the latest call, and the latest call  *)
(* carried the current filter state, whatever order the responses arrive   *)
(* in.                                                                     *)
(***************************************************************************)
C27_HeldResultIsCurrent ==
    dashFetches = 0 =>
       /\ heldIssue = dashIssued
       /\ lastFetch = FilterState
       /\ aggregatedData.present => aggregatedData.id = dashIssued

\* what does hold: the latest call carried the current filter state, and the
\* result held is that of a call that was made and is no longer in flight
LatestCallIsCurrent ==
    /\ dashFetches = Cardinality(dashPending)
    /\ dashPending \subseteq 1..dashIssued
    /\ heldIssue \in (0..dashIssued) \ dashPending
    /\ lastFetch = FilterState
    /\ aggregatedData.present => aggregatedData.id = heldIssue

\* a response of the dashboard fetch was stored in the step
ResolveStep == heldIssue' # heldIssue

\* the ceilings of the filter state are those of the aggregate held
Adopted ==
    /\ aggregatedData.present
    /\ aggregatedData.hasFilterLists
    /\ totalTransactionsMax = aggregatedData.transactionsMax
    /\ discountMax = aggregatedData.discountMax

(***************************************************************************)
(* C28: against a backend that returns the same transactionsMax and        *)
(* discountMax for every request the dashboard fetch cycle terminates.     *)
(* Storing a response leaves the ceilings adopted, and a response stored   *)
(* when they are adopted already issues no fetch, so that the adoption     *)
(* re-triggers the fetch at most once after a change; and whenever a fetch *)
(* is in flight the system reaches a state with no fetch in flight.        *)
(***************************************************************************)
C28_FetchCycleTerminates ==
    /\ [][ResolveStep =>
             /\ Adopted'
             /\ dashIssued' \in {dashIssued, dashIssued + 1}
             /\ Adopted => dashIssued' = dashIssued]_vars
    /\ (dashFetches > 0) ~> (dashFetches = 0)

\* a changed ceiling was reset by the adoption, which fetched once more, and
\* the cycle has ended
C28_Witness ==
    /\ dashFetches = 0
    /\ dashIssued = 3
    /\ heldIssue = 3
    /\ Adopted
    /\ lastFetch.totalTransactionsMax = aggregatedData.transactionsMax

\* what only the user's actions change: the page, the sidebar, the inputs,
\* the sends and history fetches made, and the filter fields no response sets
UserState ==
    <<currentPage, sidebarOpen, chatInput, graphChatInput, chatSends,
      graphSends, chatHistIssued, graphHistIssued, selectedRegions,
      selectedCategories, selectedTenure, selectedRecency,
      totalTransactionsMin, discountMin, timeFilter>>

\* the component returns the loading or the error screen
Blocked == loading \/ error # Null

(***************************************************************************)
(* C29: the dashboard error state blocks the whole application.  While     *)
(* error is set or the initial loading flag is true no page is rendered:   *)
(* no step navigates, changes a filter, edits an input or sends, and only  *)
(* a stored response changes the ceilings or issues a fetch.  Once error   *)
(* is set and no dashboard fetch is in flight, error is never cleared and  *)
(* no further fetch is issued.                                             *)
(***************************************************************************)
C29_ErrorBlocksApplication ==
    [][ /\ Blocked =>
             /\ UserState' = UserState
             /\ ~ResolveStep =>
                   UNCHANGED <<totalTransactionsMax, discountMax, dashIssued>>
        /\ (error # Null /\ dashFetches = 0) =>
             /\ error' = error
             /\ dashIssued' = dashIssued
             /\ dashFetches' = 0 ]_vars

\* the error screen with no fetch in flight, reached after a filter change
\* while the reply of a send is still awaited
C29_Witness ==
    /\ error # Null
    /\ ~loading
    /\ dashFetches = 0
    /\ dashIssued > 1
    /\ lastFetch # DefaultFilterState
    /\ chatLoading
====
